---- MODULE Spec2Model ----
(***************************************************************************)
(* Model of the workflow engine of lib/workflow_engine.py: the definition  *)
(* loader (includes, cycle check), the variable layers, ${VAR}             *)
(* substitution and condition evaluation, the step dispatcher and the      *)
(* orchestrator loop with its ignore_errors policy.                        *)
(*                                                                         *)
(* A Python str is a sequence of one-character strings (a Text); a dict    *)
(* with str keys is a function whose domain is a set of Texts; an Optional *)
(* value is <<>> for None and <<v>> for a value v.                         *)
(***************************************************************************)
EXTENDS Integers, Sequences, FiniteSets, TLC

VARIABLES
    files,      \* workflows/<name>.yaml on disk: name -> document
    config,     \* self.config, the parsed config.yaml
    stack,      \* execute_workflow calls in progress, innermost last
    child,      \* the child process of _run_command, <<>> when none
    ret,        \* <<>> or <<r>>: the last execute_workflow call that returned
    log,        \* what the run printed / spawned so far (skeleton of stdout)
    calls,      \* number of execute_workflow calls made in the current run
    loadArg,    \* <<>> or <<name>>: the argument of the last load_workflow call
    loaded,     \* <<>> or <<result>>: what that load_workflow call produced
    sToks,      \* the pieces the substitution input was written from
    sText,      \* text argument of _substitute_variables / _evaluate_condition
    sVars,      \* variables argument
    sArgs,      \* step.args of the step whose command is resolved
    sOut,       \* <<>> or <<_substitute_variables(sText, sVars)>>
    sCond,      \* <<>> or <<_evaluate_condition(sText, sVars)>>
    procs,      \* the child processes started so far, in the order of their start
    runner,     \* <<>> or <<r>>: the _run_command call in progress
    osproc,     \* os.environ and os.getcwd() of the engine's own process
    out,        \* <<>> or <<r>>: what the last call of a query method returned
    lstack      \* _load_workflow_with_includes calls in progress, innermost last

vars == <<files, config, stack, child, ret, log, calls, loadArg, loaded,
          sToks, sText, sVars, sArgs, sOut, sCond, procs, runner, osproc, out,
          lstack>>

execVars == <<stack, child, ret, log, calls>>
loadVars == <<loadArg, loaded>>
substVars == <<sToks, sText, sVars, sArgs, sOut, sCond>>
runVars == <<procs, runner>>

----------------------------------------------------------------------------
(* Bounds of the model. *)

MaxToks == 2        \* pieces of a substitution input
MaxIncludes == 2    \* entries of one includes list (loader worlds)
MaxSteps == 2       \* own steps of the varied workflow (run worlds)
MaxDepth == 3       \* nested execute_workflow calls in progress
MaxLines == 2       \* output lines of one child process
MaxKeys == 2        \* top-level entries of a configuration document

----------------------------------------------------------------------------
(* Text and dict helpers. *)

None == <<>>
Some(v) == <<v>>

EmptyDict == <<>>

\* dict.update: a.update(b); b wins on equal keys.
DictUpdate(a, b) ==
    [k \in (DOMAIN a) \cup (DOMAIN b) |-> IF k \in DOMAIN b THEN b[k] ELSE a[k]]

\* dict.get(k, default)
DictGet(d, k, default) == IF k \in DOMAIN d THEN d[k] ELSE default

UpperCase == <<"A","B","C","D","E","F","G","H","I","J","K","L","M",
               "N","O","P","Q","R","S","T","U","V","W","X","Y","Z">>
LowerCase == <<"a","b","c","d","e","f","g","h","i","j","k","l","m",
               "n","o","p","q","r","s","t","u","v","w","x","y","z">>

\* str.lower() / str.upper() on one character.
LowerChar(c) ==
    IF \E i \in 1..26 : UpperCase[i] = c
    THEN LowerCase[CHOOSE i \in 1..26 : UpperCase[i] = c]
    ELSE c
UpperChar(c) ==
    IF \E i \in 1..26 : LowerCase[i] = c
    THEN UpperCase[CHOOSE i \in 1..26 : LowerCase[i] = c]
    ELSE c

Lower(text) == [i \in 1..Len(text) |-> LowerChar(text[i])]
Upper(text) == [i \in 1..Len(text) |-> UpperChar(text[i])]

RECURSIVE Concat(_)
Concat(seqs) == IF seqs = <<>> THEN <<>> ELSE Head(seqs) \o Concat(Tail(seqs))

----------------------------------------------------------------------------
(* _substitute_variables: re.sub(r"\$\{([^}]+)\}", replace_var, text). *)

\* The index of the "}" closing a match of \$\{([^}]+)\} that starts at i,
\* or 0 when the pattern does not match at i.
MatchEnd(text, i) ==
    IF /\ i + 1 <= Len(text)
       /\ text[i] = "$"
       /\ text[i + 1] = "{"
       /\ \E j \in (i + 2)..Len(text) : text[j] = "}"
    THEN LET j == CHOOSE j \in (i + 2)..Len(text) :
                     /\ text[j] = "}"
                     /\ \A k \in (i + 2)..(j - 1) : text[k] # "}"
         IN IF j >= i + 3 THEN j ELSE 0
    ELSE 0

\* Faulty variant: an unresolved placeholder collapses to the empty string.
replace_var_collapse(text, variables, i, j) ==
    DictGet(variables, SubSeq(text, i + 2, j - 1), <<>>)

\* replace_var: variables.get(var_name, match.group(0))
replace_var(text, variables, i, j) ==
    DictGet(variables, SubSeq(text, i + 2, j - 1), SubSeq(text, i, j))

\* re.sub scans left to right; the replacement text is not scanned again.
RECURSIVE SubFrom(_, _, _)
SubFrom(text, variables, i) ==
    IF i > Len(text) THEN <<>>
    ELSE LET j == MatchEnd(text, i)
         IN IF j = 0
            THEN <<text[i]>> \o SubFrom(text, variables, i + 1)
            ELSE replace_var(text, variables, i, j)
                     \o SubFrom(text, variables, j + 1)

\* Faulty variant: the result is scanned once more.
substitute_variables_rescan(text, variables) ==
    SubFrom(SubFrom(text, variables, 1), variables, 1)

substitute_variables(text, variables) == SubFrom(text, variables, 1)

TrueText == <<"t", "r", "u", "e">>

\* Faulty variant: the comparison without .lower().
evaluate_condition_exact(condition, variables) ==
    substitute_variables(condition, variables) = TrueText

evaluate_condition(condition, variables) ==
    Lower(substitute_variables(condition, variables)) = TrueText

----------------------------------------------------------------------------
(* __init__ and _config_to_variables.  A config mapping is the sequence of *)
(* its (key, value) entries in document order; a value is a leaf           *)
(* [val |-> text] or a nested mapping [kids |-> entries].                  *)

ProjectRoot == <<"/", "p">>

\* os.path.join(a, b)
PathJoin(a, b) ==
    IF b # <<>> /\ b[1] = "/" THEN b
    ELSE IF a = <<>> \/ a[Len(a)] = "/" THEN a \o b
    ELSE a \o <<"/">> \o b

WorkflowsDir == PathJoin(ProjectRoot, <<"w", "o", "r", "k", "f", "l", "o", "w", "s">>)

K_FORK_ORG == <<"F", "O", "R", "K", "_", "O", "R", "G">>
K_GITHUB_FORK_ORG == <<"G", "I", "T", "H", "U", "B", "_", "F", "O", "R", "K", "_", "O", "R", "G">>
K_BRANCH_NAME == <<"B", "R", "A", "N", "C", "H", "_", "N", "A", "M", "E">>
K_GITHUB_BRANCH_NAME == <<"G", "I", "T", "H", "U", "B", "_", "B", "R", "A", "N", "C", "H", "_", "N", "A", "M", "E">>
K_PROJECT_ROOT == <<"P", "R", "O", "J", "E", "C", "T", "_", "R", "O", "O", "T">>
K_LOCAL_CHECKOUTS_DIR == <<"L", "O", "C", "A", "L", "_", "C", "H", "E", "C", "K", "O", "U", "T", "S", "_", "D", "I", "R">>
K_WORKFLOWS_DIR == <<"W", "O", "R", "K", "F", "L", "O", "W", "S", "_", "D", "I", "R">>

IsMapping(value) == "kids" \in DOMAIN value

\* str(value) of a leaf: a string [val |-> text], a boolean [bool |-> b] or
\* the null of YAML [null |-> TRUE].
Str(value) ==
    IF "val" \in DOMAIN value THEN value.val
    ELSE IF "bool" \in DOMAIN value
    THEN (IF value.bool THEN <<"T", "r", "u", "e">> ELSE <<"F", "a", "l", "s", "e">>)
    ELSE <<"N", "o", "n", "e">>

\* _load_config: no file, a file yaml cannot parse and an empty file all
\* give the empty mapping.  A file is <<>> (absent) or
\* <<[parses |-> b, doc |-> mapping]>>.
load_config(config_file) ==
    IF config_file = <<>> THEN <<>>
    ELSE IF ~config_file[1].parses THEN <<>>
    ELSE config_file[1].doc

RECURSIVE flatten_dict_first_wins(_, _)
RECURSIVE flatten_dict(_, _)

\* Faulty variant: a name that is already set is not overwritten.
flatten_dict_first_wins(d, prefix) ==
    IF d = <<>> THEN EmptyDict
    ELSE LET key == Head(d)[1]
             value == Head(d)[2]
             here == IF IsMapping(value)
                     THEN flatten_dict(value.kids, prefix \o Upper(key) \o <<"_">>)
                     ELSE (prefix \o Upper(key)) :> Str(value)
         IN DictUpdate(flatten_dict(Tail(d), prefix), here)

\* flatten_dict(d, prefix): entries are visited in order, a later entry
\* overwrites an earlier one that flattens to the same name.
flatten_dict(d, prefix) ==
    IF d = <<>> THEN EmptyDict
    ELSE LET key == Head(d)[1]
             value == Head(d)[2]
             here == IF IsMapping(value)
                     THEN flatten_dict(value.kids, prefix \o Upper(key) \o <<"_">>)
                     ELSE (prefix \o Upper(key)) :> Str(value)
         IN DictUpdate(here, flatten_dict(Tail(d), prefix))

config_aliases(variables) ==
    LET v1 == IF K_GITHUB_FORK_ORG \in DOMAIN variables
              THEN DictUpdate(variables, K_FORK_ORG :> variables[K_GITHUB_FORK_ORG])
              ELSE variables
    IN IF K_GITHUB_BRANCH_NAME \in DOMAIN v1
       THEN DictUpdate(v1, K_BRANCH_NAME :> v1[K_GITHUB_BRANCH_NAME])
       ELSE v1

config_to_variables(cfg) ==
    DictUpdate(config_aliases(flatten_dict(cfg, <<>>)),
               (K_PROJECT_ROOT :> ProjectRoot)
                 @@ (K_LOCAL_CHECKOUTS_DIR :> PathJoin(ProjectRoot, <<"s", "r", "c">>))
                 @@ (K_WORKFLOWS_DIR :> WorkflowsDir))

----------------------------------------------------------------------------
(* load_workflow / _load_workflow_with_includes.                           *)
(*                                                                         *)
(* A document on disk is [parses, includes, variables, steps]: parses is   *)
(* whether yaml.safe_load returns a mapping; includes is the list under    *)
(* "includes" (<<>> when the key is absent); steps is the list of step     *)
(* mappings, each with the flag "complete" saying that the required keys   *)
(* name, type and command are there.  A name outside DOMAIN files has no   *)
(* file.  The result of a load is either                                   *)
(*   [ok |-> TRUE, steps, variables, warnings]   the WorkflowDefinition    *)
(*   [ok |-> FALSE, error, warnings]             the exception raised      *)
(* where warnings lists the includes whose "Could not load included        *)
(* workflow" line was printed during the call.                             *)

\* WorkflowStep(...) as built from one step mapping (lines 196-205).
ParseStep(step_data) ==
    [name |-> step_data.name,
     type |-> step_data.type,
     command |-> step_data.command,
     args |-> step_data.args,
     env |-> step_data.env,
     working_directory |-> step_data.working_directory,
     ignore_errors |-> IF step_data.ignore_errors = None THEN FALSE
                       ELSE step_data.ignore_errors[1],
     condition |-> step_data.condition]

main_steps(doc) == [i \in 1..Len(doc.steps) |-> ParseStep(doc.steps[i])]

\* Faulty variant: the workflow's own steps are put before the included ones.
merge_steps_own_first(merged_steps, own_steps) == own_steps \o merged_steps

\* merged_steps.extend(main_steps)
merge_steps(merged_steps, own_steps) == merged_steps \o own_steps

Raise(error, warnings) == [ok |-> FALSE, error |-> error, warnings |-> warnings]

\* Faulty variant: no name is ever taken for one that is being loaded.
is_circular_never(workflow_name, loaded_workflows) == FALSE

\* Line 149: workflow_name in loaded_workflows.
is_circular(workflow_name, loaded_workflows) == workflow_name \in loaded_workflows

RECURSIVE load_workflow_with_includes(_, _, _)
RECURSIVE merge_includes_break(_, _, _, _)
RECURSIVE merge_includes(_, _, _, _)

\* Faulty variant: the handler of a failed include leaves the loop (break) instead
\* of going on with the next include (continue).
merge_includes_break(fs, includes, loaded_workflows, acc) ==
    IF includes = <<>> THEN acc
    ELSE LET include_name == Head(includes)
             included == load_workflow_with_includes(fs, include_name, loaded_workflows)
         IN IF included.ok
            THEN merge_includes_break(fs, Tail(includes), loaded_workflows,
                     [variables |-> DictUpdate(acc.variables, included.variables),
                      steps |-> acc.steps \o included.steps,
                      warnings |-> acc.warnings \o included.warnings])
            ELSE [acc EXCEPT !.warnings = @ \o included.warnings \o <<include_name>>]

\* The names a load adds to a visited set that is shared, not copied.
RECURSIVE visited_after(_, _, _)
RECURSIVE visited_after_all(_, _, _)
visited_after_all(fs, includes, visited) ==
    IF includes = <<>> THEN visited
    ELSE visited_after_all(fs, Tail(includes),
                           visited_after(fs, Head(includes), visited))
visited_after(fs, workflow_name, visited) ==
    IF \/ workflow_name \in visited
       \/ workflow_name \notin DOMAIN fs
       \/ ~fs[workflow_name].parses
    THEN visited
    ELSE visited_after_all(fs, fs[workflow_name].includes,
                           visited \cup {workflow_name})

\* Faulty variant: the includes are loaded with the one shared visited set
\* (no .copy()), so what one include visited is seen by the next.
RECURSIVE merge_includes_shared(_, _, _, _)
merge_includes_shared(fs, includes, loaded_workflows, acc) ==
    IF includes = <<>> THEN acc
    ELSE LET include_name == Head(includes)
             included == load_workflow_with_includes(fs, include_name, loaded_workflows)
         IN merge_includes_shared(fs, Tail(includes),
                visited_after(fs, include_name, loaded_workflows),
                IF included.ok
                THEN [variables |-> DictUpdate(acc.variables, included.variables),
                      steps |-> acc.steps \o included.steps,
                      warnings |-> acc.warnings \o included.warnings]
                ELSE [acc EXCEPT !.warnings = @ \o included.warnings \o <<include_name>>])

\* Faulty variant: on equal keys the variables of an earlier include win.
RECURSIVE merge_includes_first_wins(_, _, _, _)
merge_includes_first_wins(fs, includes, loaded_workflows, acc) ==
    IF includes = <<>> THEN acc
    ELSE LET include_name == Head(includes)
             included == load_workflow_with_includes(fs, include_name, loaded_workflows)
         IN merge_includes_first_wins(fs, Tail(includes), loaded_workflows,
                IF included.ok
                THEN [variables |-> DictUpdate(included.variables, acc.variables),
                      steps |-> acc.steps \o included.steps,
                      warnings |-> acc.warnings \o included.warnings]
                ELSE [acc EXCEPT !.warnings = @ \o included.warnings \o <<include_name>>])

\* The loop over workflow_data["includes"] (lines 169-187): each include is
\* loaded with a copy of loaded_workflows; a failed load is printed and skipped.
merge_includes(fs, includes, loaded_workflows, acc) ==
    IF includes = <<>> THEN acc
    ELSE LET include_name == Head(includes)
             included == load_workflow_with_includes(fs, include_name, loaded_workflows)
         IN merge_includes(fs, Tail(includes), loaded_workflows,
                IF included.ok
                THEN [variables |-> DictUpdate(acc.variables, included.variables),
                      steps |-> acc.steps \o included.steps,
                      warnings |-> acc.warnings \o included.warnings]
                ELSE [acc EXCEPT !.warnings = @ \o included.warnings \o <<include_name>>])

load_workflow_with_includes(fs, workflow_name, loaded_workflows) ==
    IF is_circular(workflow_name, loaded_workflows) THEN Raise("ValueError", <<>>)
    ELSE IF workflow_name \notin DOMAIN fs THEN Raise("FileNotFoundError", <<>>)
    ELSE LET workflow_data == fs[workflow_name]
         IN IF ~workflow_data.parses THEN Raise("YAMLError", <<>>)
            ELSE LET merged == merge_includes(fs, workflow_data.includes,
                                   loaded_workflows \cup {workflow_name},
                                   [variables |-> EmptyDict, steps |-> <<>>,
                                    warnings |-> <<>>])
                 IN IF \E i \in 1..Len(workflow_data.steps) :
                           ~workflow_data.steps[i].complete
                    THEN Raise("KeyError", merged.warnings)
                    ELSE [ok |-> TRUE,
                          variables |-> DictUpdate(merged.variables,
                                                   workflow_data.variables),
                          steps |-> merge_steps(merged.steps, main_steps(workflow_data)),
                          warnings |-> merged.warnings]

\* Faulty variant: a document whose own steps cannot be built still loads,
\* with the steps and variables merged from its includes.
load_workflow_lenient(fs, workflow_name) ==
    LET r == load_workflow_with_includes(fs, workflow_name, {})
    IN IF ~r.ok /\ r.error = "KeyError"
       THEN LET merged == merge_includes(fs, fs[workflow_name].includes,
                              {workflow_name},
                              [variables |-> EmptyDict, steps |-> <<>>,
                               warnings |-> <<>>])
            IN [ok |-> TRUE, variables |-> merged.variables,
                steps |-> merged.steps, warnings |-> merged.warnings]
       ELSE r

\* Faulty variant: the targets of the workflow-typed steps are loaded with
\* the definition, which fails to load when one of them does.
load_workflow_eager(fs, workflow_name) ==
    LET r == load_workflow_with_includes(fs, workflow_name, {})
    IN IF /\ r.ok
          /\ \E j \in 1..Len(r.steps) :
                 /\ r.steps[j].type = "workflow"
                 /\ ~load_workflow_with_includes(fs, r.steps[j].command,
                                                 {workflow_name}).ok
       THEN Raise("FileNotFoundError", r.warnings)
       ELSE r

load_workflow(fs, workflow_name) == load_workflow_with_includes(fs, workflow_name, {})

(* The same method call by call: a _load_workflow_with_includes call in    *)
(* progress is a frame [workflow_name, loaded_workflows, idx, merged],     *)
(* idx being the position of the next include of its loop and merged what  *)
(* the loop has gathered; lstack is the chain of such calls.               *)

\* Lines 149-160: what the call raises before it adds its name, <<>> when
\* it gets to line 163.
raised_at_entry(fs, workflow_name, loaded_workflows) ==
    IF is_circular(workflow_name, loaded_workflows) THEN Some("ValueError")
    ELSE IF workflow_name \notin DOMAIN fs THEN Some("FileNotFoundError")
    ELSE IF ~fs[workflow_name].parses THEN Some("YAMLError")
    ELSE None

\* Lines 163-167: loaded_workflows.add(workflow_name) on the set the caller
\* handed over, and the empty merged_variables and merged_steps.
LoadFrame(workflow_name, loaded_workflows) ==
    [workflow_name |-> workflow_name,
     loaded_workflows |-> loaded_workflows \cup {workflow_name},
     idx |-> 1,
     merged |-> [variables |-> EmptyDict, steps |-> <<>>, warnings |-> <<>>]]

\* Lines 176-187: one turn of the include loop is over with the result
\* included (a definition or an exception).
include_done(frame, include_name, included) ==
    [frame EXCEPT
        !.idx = @ + 1,
        !.merged = IF included.ok
                   THEN [variables |-> DictUpdate(@.variables, included.variables),
                         steps |-> @.steps \o included.steps,
                         warnings |-> @.warnings \o included.warnings]
                   ELSE [@ EXCEPT !.warnings = @ \o included.warnings
                                                 \o <<include_name>>]]

\* Lines 189-217: what the call returns or raises after its include loop.
load_result(fs, frame) ==
    LET workflow_data == fs[frame.workflow_name]
    IN IF \E i \in 1..Len(workflow_data.steps) : ~workflow_data.steps[i].complete
       THEN Raise("KeyError", frame.merged.warnings)
       ELSE [ok |-> TRUE,
             variables |-> DictUpdate(frame.merged.variables, workflow_data.variables),
             steps |-> merge_steps(frame.merged.steps, main_steps(workflow_data)),
             warnings |-> frame.merged.warnings]

LoadTop == lstack[Len(lstack)]

\* load_workflow(workflow_name) is called (line 130).
LoadBegin(workflow_name) ==
    /\ loadArg = None
    /\ lstack = <<>>
    /\ loadArg' = Some(workflow_name)
    /\ LET raised == raised_at_entry(files, workflow_name, {})
       IN IF raised # None
          THEN /\ loaded' = Some(Raise(raised[1], <<>>))
               /\ lstack' = <<>>
          ELSE /\ loaded' = None
               /\ lstack' = <<LoadFrame(workflow_name, {})>>
    /\ UNCHANGED <<files, config, osproc, out, runVars, execVars, substVars>>

\* Lines 170-173: the loop calls _load_workflow_with_includes for the next
\* include with a copy of loaded_workflows; a call that raises at its entry
\* is over at once and the loop goes on.
LoadInclude ==
    /\ lstack # <<>>
    /\ LoadTop.idx <= Len(files[LoadTop.workflow_name].includes)
    /\ LET include_name == files[LoadTop.workflow_name].includes[LoadTop.idx]
           raised == raised_at_entry(files, include_name, LoadTop.loaded_workflows)
       IN IF raised # None
          THEN lstack' = [lstack EXCEPT ![Len(lstack)] =
                             include_done(@, include_name, Raise(raised[1], <<>>))]
          ELSE lstack' = Append(lstack,
                                LoadFrame(include_name, LoadTop.loaded_workflows))
    /\ UNCHANGED <<files, config, osproc, out, runVars, execVars, loadVars, substVars>>

\* Faulty variant: what a call had gathered from its own includes when it
\* raises is handed on to its caller's merged steps and variables.
LoadReturn_leaks ==
    /\ lstack # <<>>
    /\ LoadTop.idx > Len(files[LoadTop.workflow_name].includes)
    /\ LET r == load_result(files, LoadTop)
           rest == SubSeq(lstack, 1, Len(lstack) - 1)
           gathered == [ok |-> TRUE, variables |-> LoadTop.merged.variables,
                        steps |-> LoadTop.merged.steps,
                        warnings |-> LoadTop.merged.warnings
                                        \o <<LoadTop.workflow_name>>]
       IN IF rest = <<>>
          THEN /\ lstack' = <<>>
               /\ loaded' = Some(r)
          ELSE /\ lstack' = [rest EXCEPT ![Len(rest)] =
                                 include_done(@, LoadTop.workflow_name,
                                              IF r.ok THEN r ELSE gathered)]
               /\ loaded' = loaded
    /\ UNCHANGED <<files, config, osproc, out, runVars, execVars, loadArg, substVars>>

\* The include loop of the innermost call is over: the call returns or
\* raises, to the loop of its caller or to load_workflow.
LoadReturn ==
    /\ lstack # <<>>
    /\ LoadTop.idx > Len(files[LoadTop.workflow_name].includes)
    /\ LET r == load_result(files, LoadTop)
           rest == SubSeq(lstack, 1, Len(lstack) - 1)
       IN IF rest = <<>>
          THEN /\ lstack' = <<>>
               /\ loaded' = Some(r)
          ELSE /\ lstack' = [rest EXCEPT ![Len(rest)] =
                                 include_done(@, LoadTop.workflow_name, r)]
               /\ loaded' = loaded
    /\ UNCHANGED <<files, config, osproc, out, runVars, execVars, loadArg, substVars>>

----------------------------------------------------------------------------
(* execute_workflow, _execute_workflow_definition, _execute_step and the   *)
(* executors.  One execute_workflow call in progress is a frame; the call  *)
(* stack is the sequence of frames.  A frame is at "loop" (about to run    *)
(* step i), at "run" (blocked in _run_command on the child), at "call"     *)
(* (blocked in a nested execute_workflow) or at "return" (its result is    *)
(* decided).  outcomes lists, per step visited, what _execute_step did.    *)

\* Faulty variant: runtime variables are applied first, so the lower layers win.
merge_runtime_vars_reversed(config_vars, workflow_vars, variables) ==
    DictUpdate(DictUpdate(variables, workflow_vars), config_vars)

\* Lines 254-266: config < workflow < runtime.
merge_runtime_vars(config_vars, workflow_vars, variables) ==
    DictUpdate(DictUpdate(config_vars, workflow_vars), variables)

\* Faulty variant: the workflow's variables are applied after the runtime ones.
preview_final_vars_workflow_last(config_vars, workflow_vars, runtime_vars) ==
    DictUpdate(DictUpdate(config_vars, runtime_vars), workflow_vars)

\* Lines 577-584 of preview_workflow_variables: final_vars.
preview_final_vars(config_vars, workflow_vars, runtime_vars) ==
    DictUpdate(DictUpdate(DictUpdate(EmptyDict, config_vars), workflow_vars),
               runtime_vars)

\* preview_workflow_variables(workflow_name, runtime_vars): the except
\* branch (lines 588-590) returns {}.
preview_workflow_variables(fs, cfg, workflow_name, runtime_vars) ==
    LET workflow == load_workflow(fs, workflow_name)
    IN IF workflow.ok
       THEN preview_final_vars(config_to_variables(cfg), workflow.variables,
                               runtime_vars)
       ELSE EmptyDict

\* Faulty variant: a loading failure is swallowed and reported as success.
on_load_error_true(call, workflow_name, variables) ==
    [id |-> call, workflow_name |-> workflow_name, variables |-> variables,
     load_ok |-> FALSE, steps |-> <<>>, workflow_variables |-> EmptyDict,
     runtime_vars |-> EmptyDict, i |-> 1, outcomes |-> <<>>,
     pc |-> "return", result |-> TRUE, last_line |-> "Error loading workflow"]

\* Lines 234-236: the except branch of execute_workflow.
on_load_error(call, workflow_name, variables) ==
    [id |-> call, workflow_name |-> workflow_name, variables |-> variables,
     load_ok |-> FALSE, steps |-> <<>>, workflow_variables |-> EmptyDict,
     runtime_vars |-> EmptyDict, i |-> 1, outcomes |-> <<>>,
     pc |-> "return", result |-> FALSE, last_line |-> "Error loading workflow"]

\* _execute_workflow_definition up to its loop (lines 250-268); a workflow
\* without steps falls through the loop and returns True (lines 276-277).
NewFrame(call, workflow_name, variables, workflow, cfg) ==
    [id |-> call, workflow_name |-> workflow_name, variables |-> variables,
     load_ok |-> TRUE, steps |-> workflow.steps,
     workflow_variables |-> workflow.variables,
     runtime_vars |-> merge_runtime_vars(config_to_variables(cfg),
                                         workflow.variables, variables),
     i |-> 1, outcomes |-> <<>>,
     pc |-> IF workflow.steps = <<>> THEN "return" ELSE "loop",
     result |-> TRUE,
     last_line |-> IF workflow.steps = <<>> THEN "completed successfully"
                   ELSE "Executing workflow"]

\* Faulty variant: the loop goes on after a failure whatever ignore_errors says.
step_result_never_abort(frame, outcome) ==
    LET f1 == [frame EXCEPT !.outcomes = Append(@, outcome)]
    IN IF frame.i = Len(frame.steps)
       THEN [f1 EXCEPT !.i = @ + 1, !.pc = "return", !.result = TRUE,
                       !.last_line = "completed successfully"]
       ELSE [f1 EXCEPT !.i = @ + 1, !.pc = "loop"]

\* Faulty variant: the loop aborts on a failure whatever ignore_errors says.
step_result_always_abort(frame, outcome) ==
    LET f1 == [frame EXCEPT !.outcomes = Append(@, outcome)]
    IN IF outcome = "failed"
       THEN [f1 EXCEPT !.pc = "return", !.result = FALSE,
                       !.last_line = "Workflow failed at step"]
       ELSE IF frame.i = Len(frame.steps)
       THEN [f1 EXCEPT !.i = @ + 1, !.pc = "return", !.result = TRUE,
                       !.last_line = "completed successfully"]
       ELSE [f1 EXCEPT !.i = @ + 1, !.pc = "loop"]

\* Faulty variant: a failed step with ignore_errors is tried again.
step_result_retry(frame, outcome) ==
    IF outcome = "failed" /\ frame.steps[frame.i].ignore_errors
    THEN [frame EXCEPT !.pc = "loop"]
    ELSE LET f1 == [frame EXCEPT !.outcomes = Append(@, outcome)]
         IN IF outcome = "failed"
            THEN [f1 EXCEPT !.pc = "return", !.result = FALSE,
                            !.last_line = "Workflow failed at step"]
            ELSE IF frame.i = Len(frame.steps)
            THEN [f1 EXCEPT !.i = @ + 1, !.pc = "return", !.result = TRUE,
                            !.last_line = "completed successfully"]
            ELSE [f1 EXCEPT !.i = @ + 1, !.pc = "loop"]

\* Lines 268-277: what the loop does with the value _execute_step returned
\* for step i ("skipped" and "ok" are True, "failed" is False).
step_result(frame, outcome) ==
    LET f1 == [frame EXCEPT !.outcomes = Append(@, outcome)]
    IN IF outcome = "failed" /\ ~frame.steps[frame.i].ignore_errors
       THEN [f1 EXCEPT !.pc = "return", !.result = FALSE,
                       !.last_line = "Workflow failed at step"]
       ELSE IF frame.i = Len(frame.steps)
       THEN [f1 EXCEPT !.i = @ + 1, !.pc = "return", !.result = TRUE,
                       !.last_line = "completed successfully"]
       ELSE [f1 EXCEPT !.i = @ + 1, !.pc = "loop"]

Whitespace == {" ", "\t", "\n"}

\* str.split(): the maximal runs of non-whitespace characters.
RECURSIVE SplitFrom(_, _, _)
SplitFrom(text, i, cur) ==
    IF i > Len(text) THEN (IF cur = <<>> THEN <<>> ELSE <<cur>>)
    ELSE IF text[i] \in Whitespace
    THEN (IF cur = <<>> THEN <<>> ELSE <<cur>>) \o SplitFrom(text, i + 1, <<>>)
    ELSE SplitFrom(text, i + 1, Append(cur, text[i]))

Split(text) == SplitFrom(text, 1, <<>>)

\* Line 300: the step is skipped ("if step.condition and not ...": None and
\* the empty string are both falsy).
condition_skips(step, variables) ==
    /\ step.condition # None
    /\ step.condition[1] # <<>>
    /\ ~evaluate_condition(step.condition[1], variables)

\* Lines 304-318: the command and the argument list.
resolved_command(step, variables) ==
    LET command == substitute_variables(step.command, variables)
        command_parts == Split(command)
    IN IF step.args = None
       THEN IF Len(command_parts) > 1
            THEN [command |-> command_parts[1], args |-> Tail(command_parts)]
            ELSE [command |-> command, args |-> <<>>]
       ELSE [command |-> command,
             args |-> [k \in 1..Len(step.args[1]) |->
                          substitute_variables(step.args[1][k], variables)]]

\* Lines 320-325.
resolved_working_directory(step, variables) ==
    IF step.working_directory # None /\ step.working_directory[1] # <<>>
    THEN Some(substitute_variables(step.working_directory[1], variables))
    ELSE None

ProcessTypes == {"kubectl", "tool", "shell"}

\* _execute_kubectl, _execute_tool, _execute_shell: the argv handed to
\* _run_command.
command_line(type, command, args) ==
    IF type = "kubectl" THEN <<<<"k", "u", "b", "e", "c", "t", "l">>, command>> \o args
    ELSE IF type = "tool"
    THEN <<<<"p", "y", "t", "h", "o", "n">>, PathJoin(ProjectRoot, <<"t", "o", "o", "l", ".", "p", "y">>), command>> \o args
    ELSE <<command>> \o args

\* os.environ of the engine's process when it starts, and the directory it
\* was started in (the project root or a directory below it, lines 49-59).
KeyHome == <<"H", "O", "M", "E">>
OsEnviron == (KeyHome :> <<"/", "h">>)
StartDir == PathJoin(ProjectRoot, <<"s", "u", "b">>)
StartProc == [environ |-> OsEnviron, cwd |-> StartDir]

\* Lines 466-484: the arguments of subprocess.Popen; run_env is a copy of
\* os.environ with env put on top.
popen_args(cmd, env, working_directory) ==
    [cmd |-> cmd,
     env |-> IF env # None /\ env[1] # EmptyDict
             THEN DictUpdate(osproc.environ, env[1]) ELSE osproc.environ,
     cwd |-> IF working_directory # None /\ working_directory[1] # <<>>
             THEN working_directory[1] ELSE ProjectRoot]

\* Faulty variant: the overrides are written into os.environ itself and the
\* engine changes into the step's directory.
run_command_effect_in_place(proc, env, working_directory) ==
    [environ |-> IF env # None THEN DictUpdate(proc.environ, env[1])
                 ELSE proc.environ,
     cwd |-> IF working_directory # None THEN working_directory[1] ELSE proc.cwd]

\* Lines 466-484: what _run_command does to the engine's own process:
\* os.environ is copied (line 472) and cwd is an argument of Popen, so
\* nothing.
run_command_effect(proc, env, working_directory) == proc

ExitCodes == {0, 1}

\* Faulty variant: exit code 1 is taken for success too.
command_succeeded_below_two(returncode) == returncode < 2

\* Line 492: process.returncode == 0
command_succeeded(returncode) == returncode = 0

Top == stack[Len(stack)]

SetTop(frame) == [stack EXCEPT ![Len(stack)] = frame]

AtLoop ==
    /\ stack # <<>>
    /\ Top.pc = "loop"

CurrentStep == Top.steps[Top.i]

Event(ev, frame) == [ev |-> ev, call |-> frame.id, step |-> frame.i]

\* A caller (tool.py) calls engine.execute_workflow(workflow_name, variables):
\* the definition is loaded, and either the call returns False at once or the
\* loop of _execute_workflow_definition is entered.
ExecuteWorkflow(workflow_name, variables) ==
    /\ stack = <<>>
    /\ LET workflow == load_workflow(files, workflow_name)
       IN IF workflow.ok
          THEN /\ stack' = <<NewFrame(1, workflow_name, variables, workflow, config)>>
               /\ ret' = None
          ELSE /\ stack' = <<>>
               /\ ret' = Some(on_load_error(1, workflow_name, variables))
    /\ calls' = 1
    /\ log' = <<>>
    /\ child' = None
    /\ UNCHANGED <<files, config, osproc, out, lstack, runVars, loadVars, substVars>>

\* _execute_step, lines 299-302: the condition is false and the step is skipped.
StepSkipped ==
    /\ AtLoop
    /\ condition_skips(CurrentStep, Top.runtime_vars)
    /\ stack' = SetTop(step_result(Top, "skipped"))
    /\ UNCHANGED <<files, config, osproc, out, lstack, runVars, child, ret, log, calls, loadVars, substVars>>

\* _execute_step dispatches to _run_command and Popen starts the child.
Spawn ==
    /\ AtLoop
    /\ ~condition_skips(CurrentStep, Top.runtime_vars)
    /\ CurrentStep.type \in ProcessTypes
    /\ LET r == resolved_command(CurrentStep, Top.runtime_vars)
       IN child' = Some(popen_args(command_line(CurrentStep.type, r.command, r.args),
                                   CurrentStep.env,
                                   resolved_working_directory(CurrentStep,
                                                              Top.runtime_vars)))
    /\ log' = Append(log, Event("spawn", Top))
    /\ stack' = SetTop([Top EXCEPT !.pc = "run"])
    /\ osproc' = run_command_effect(osproc, CurrentStep.env,
                                    resolved_working_directory(CurrentStep,
                                                               Top.runtime_vars))
    /\ UNCHANGED <<files, config, out, lstack, ret, calls, loadVars, substVars>>

\* The same with the child taken as a whole: it runs until ChildExits.
StepSpawns ==
    /\ Spawn
    /\ UNCHANGED runVars

\* _run_command, lines 499-501: Popen raises and the step has failed.
StepSpawnFails ==
    /\ AtLoop
    /\ ~condition_skips(CurrentStep, Top.runtime_vars)
    /\ CurrentStep.type \in ProcessTypes
    /\ stack' = SetTop(step_result(Top, "failed"))
    /\ UNCHANGED <<files, config, osproc, out, lstack, runVars, child, ret, log, calls, loadVars, substVars>>

\* _run_command, lines 486-497: the output is drained, the child has exited.
\* (A read that raises leaves the frame as a non-zero exit code does; what
\* becomes of the child then is in the detailed runner below.)
ChildExits(returncode) ==
    /\ stack # <<>>
    /\ Top.pc = "run"
    /\ child # None
    /\ child' = None
    /\ stack' = SetTop(step_result(Top, IF command_succeeded(returncode)
                                      THEN "ok" ELSE "failed"))
    /\ UNCHANGED <<files, config, osproc, out, lstack, runVars, ret, log, calls, loadVars, substVars>>

\* Faulty variant: a step of unknown type is passed over as if it had succeeded.
StepUnknownType_ok ==
    /\ AtLoop
    /\ ~condition_skips(CurrentStep, Top.runtime_vars)
    /\ CurrentStep.type \notin ProcessTypes \cup {"workflow"}
    /\ stack' = SetTop(step_result(Top, "ok"))
    /\ UNCHANGED <<files, config, osproc, out, lstack, runVars, child, ret, log, calls, loadVars, substVars>>

\* Lines 336-338: unknown step type.
StepUnknownType ==
    /\ AtLoop
    /\ ~condition_skips(CurrentStep, Top.runtime_vars)
    /\ CurrentStep.type \notin ProcessTypes \cup {"workflow"}
    /\ stack' = SetTop(step_result(Top, "failed"))
    /\ UNCHANGED <<files, config, osproc, out, lstack, runVars, child, ret, log, calls, loadVars, substVars>>

\* The name _execute_nested_workflow passes on (line 333).
NestedName == resolved_command(CurrentStep, Top.runtime_vars).command

\* Faulty variant: only the caller's own runtime variables are handed down.
NestedVariables_caller == Top.variables

\* Line 333: the variables handed to _execute_nested_workflow are the
\* variables _execute_step was given, the runtime_vars of the running call.
NestedVariables == Top.runtime_vars

\* Faulty variant: the nested load starts with the names of the runs in
\* progress as the workflows being loaded.
NestedLoad_visited ==
    load_workflow_with_includes(files, NestedName,
                                {stack[k].workflow_name : k \in 1..Len(stack)})

\* Line 232 in the nested execute_workflow: load_workflow(workflow_name),
\* which starts with set() (line 130).
NestedLoad == load_workflow(files, NestedName)

AtNestedCall ==
    /\ AtLoop
    /\ Len(stack) < MaxDepth
    /\ ~condition_skips(CurrentStep, Top.runtime_vars)
    /\ CurrentStep.type = "workflow"

\* A workflow-typed step: execute_workflow is entered with the step's
\* resolved command and the caller's runtime_vars; the definition loads.
StepNestedCall ==
    /\ AtNestedCall
    /\ LET workflow == NestedLoad
       IN /\ workflow.ok
          /\ stack' = Append(SetTop([Top EXCEPT !.pc = "call"]),
                             NewFrame(calls + 1, NestedName, NestedVariables,
                                      workflow, config))
    /\ calls' = calls + 1
    /\ log' = Append(log, Event("nested", Top))
    /\ UNCHANGED <<files, config, osproc, out, lstack, runVars, child, ret, loadVars, substVars>>

\* A workflow-typed step whose definition does not load: the nested
\* execute_workflow prints the error and returns False, the step has failed.
StepNestedLoadFails ==
    /\ AtNestedCall
    /\ ~NestedLoad.ok
    /\ ret' = Some(on_load_error(calls + 1, NestedName, NestedVariables))
    /\ stack' = SetTop(step_result(Top, "failed"))
    /\ calls' = calls + 1
    /\ log' = Append(log, Event("nested", Top))
    /\ UNCHANGED <<files, config, osproc, out, lstack, runVars, child, loadVars, substVars>>

\* A workflow-typed step taken up when MaxDepth calls are in progress: the
\* interpreter's recursion limit is reached inside the nested
\* execute_workflow, whose try (lines 231-236) catches the RecursionError as
\* it catches a failed load, prints the error and returns False.
StepRecursionError ==
    /\ AtLoop
    /\ Len(stack) = MaxDepth
    /\ ~condition_skips(CurrentStep, Top.runtime_vars)
    /\ CurrentStep.type = "workflow"
    /\ ret' = Some(on_load_error(calls + 1, NestedName, NestedVariables))
    /\ stack' = SetTop(step_result(Top, "failed"))
    /\ calls' = calls + 1
    /\ log' = Append(log, [ev |-> "nested", call |-> Top.id, step |-> Top.i,
                           raised |-> "RecursionError"])
    /\ UNCHANGED <<files, config, osproc, out, lstack, runVars, child, loadVars, substVars>>

\* Faulty variant: the mapping of the nested run is written back into the
\* mapping of the run that called it.
Return_leaks ==
    /\ stack # <<>>
    /\ Top.pc = "return"
    /\ ret' = Some(Top)
    /\ stack' = IF Len(stack) = 1 THEN <<>>
                ELSE LET rest == SubSeq(stack, 1, Len(stack) - 1)
                         caller == rest[Len(rest)]
                     IN [rest EXCEPT ![Len(rest)] =
                            [step_result(caller, IF Top.result THEN "ok" ELSE "failed")
                                EXCEPT !.runtime_vars =
                                           DictUpdate(@, Top.runtime_vars)]]
    /\ UNCHANGED <<files, config, osproc, out, lstack, runVars, child, log, calls, loadVars, substVars>>

\* _execute_workflow_definition returns: to the caller of execute_workflow,
\* or to the workflow-typed step of the calling frame.
Return ==
    /\ stack # <<>>
    /\ Top.pc = "return"
    /\ ret' = Some(Top)
    /\ stack' = IF Len(stack) = 1 THEN <<>>
                ELSE LET rest == SubSeq(stack, 1, Len(stack) - 1)
                         caller == rest[Len(rest)]
                     IN [rest EXCEPT ![Len(rest)] =
                            step_result(caller, IF Top.result THEN "ok" ELSE "failed")]
    /\ UNCHANGED <<files, config, osproc, out, lstack, runVars, child, log, calls, loadVars, substVars>>

----------------------------------------------------------------------------
(* _run_command in detail (lines 476-501).  A child process writes the     *)
(* lines of its output to the pipe at its own pace, closes its stdout and  *)
(* terminates with its exit code.  The runner iterates over process.stdout *)
(* (a text stream: a read takes what the pipe holds and decodes it, and    *)
(* raises on bytes that are not valid text), prints each line, then waits  *)
(* for the process and tests the return code.  Everything from Popen to    *)
(* the test sits in one try, whose except branch returns False.            *)

\* What a child writes: per line, whether its bytes decode.
LineKinds == {"text", "bad"}

RunExitCodes == {0, 1, 2}

\* The child started by Popen(cmd, env=run_env, cwd=cwd, stdout=PIPE).
\* lines are the lines written so far, pipe and echo list line numbers, code
\* is the exit code once the child has terminated.
NewProc(call, step, popen) ==
    [call |-> call, step |-> step, popen |-> popen,
     lines |-> <<>>, pipe |-> <<>>, closed |-> FALSE, state |-> "running",
     code |-> None, abandoned |-> FALSE, echo |-> <<>>]

\* Lines 477-484: Popen returns; the runner is about to ask for a line.
RunPopen ==
    /\ Spawn
    /\ procs' = Append(procs, NewProc(Top.id, Top.i, child'[1]))
    /\ runner' = Some([pid |-> Len(procs) + 1, pc |-> "next", buf |-> <<>>,
                       line |-> None])

\* The child writes one more line to its stdout.
ChildWrites(pid, kind) ==
    /\ procs[pid].state = "running"
    /\ ~procs[pid].closed
    /\ ~procs[pid].abandoned
    /\ Len(procs[pid].lines) < MaxLines
    /\ procs' = [procs EXCEPT ![pid].lines = Append(@, kind),
                              ![pid].pipe = Append(@, Len(procs[pid].lines) + 1)]
    /\ UNCHANGED <<files, config, osproc, out, lstack, execVars, loadVars, substVars, runner>>

\* The child closes its stdout.
ChildCloses(pid) ==
    /\ procs[pid].state = "running"
    /\ ~procs[pid].closed
    /\ procs' = [procs EXCEPT ![pid].closed = TRUE]
    /\ UNCHANGED <<files, config, osproc, out, lstack, execVars, loadVars, substVars, runner>>

\* The child terminates with an exit code.
ChildTerminates(pid, code) ==
    /\ procs[pid].state = "running"
    /\ procs[pid].closed
    /\ procs' = [procs EXCEPT ![pid].state = "exited", ![pid].code = Some(code)]
    /\ UNCHANGED <<files, config, osproc, out, lstack, execVars, loadVars, substVars, runner>>

Running == runner[1]

RunningProc == procs[Running.pid]

AtRunner(pc) ==
    /\ runner # None
    /\ Running.pc = pc

Undecodable(pid) ==
    \E k \in 1..Len(procs[pid].pipe) : procs[pid].lines[procs[pid].pipe[k]] = "bad"

\* Line 487, "for line in process.stdout": the next line, from what was read
\* before or from a read of what the pipe holds now.
RunNextLine ==
    /\ AtRunner("next")
    /\ IF Running.buf # <<>>
       THEN /\ runner' = Some([Running EXCEPT !.line = Some(Head(Running.buf)),
                                              !.buf = Tail(@), !.pc = "print"])
            /\ procs' = procs
       ELSE /\ RunningProc.pipe # <<>>
            /\ ~Undecodable(Running.pid)
            /\ runner' = Some([Running EXCEPT !.line = Some(Head(RunningProc.pipe)),
                                              !.buf = Tail(RunningProc.pipe),
                                              !.pc = "print"])
            /\ procs' = [procs EXCEPT ![Running.pid].pipe = <<>>]
    /\ UNCHANGED <<files, config, osproc, out, lstack, execVars, loadVars, substVars>>

\* Line 487 raises UnicodeDecodeError; lines 499-501 return False.  The
\* process is neither waited for nor killed.
RunReadRaises ==
    /\ AtRunner("next")
    /\ Running.buf = <<>>
    /\ RunningProc.pipe # <<>>
    /\ Undecodable(Running.pid)
    /\ procs' = [procs EXCEPT ![Running.pid].pipe = <<>>,
                              ![Running.pid].abandoned = TRUE]
    /\ runner' = None
    /\ child' = None
    /\ stack' = SetTop(step_result(Top, "failed"))
    /\ UNCHANGED <<files, config, osproc, out, lstack, ret, log, calls, loadVars, substVars>>

\* Line 488: print(line)
RunPrint ==
    /\ AtRunner("print")
    /\ procs' = [procs EXCEPT ![Running.pid].echo = Append(@, Running.line[1])]
    /\ runner' = Some([Running EXCEPT !.line = None, !.pc = "next"])
    /\ UNCHANGED <<files, config, osproc, out, lstack, execVars, loadVars, substVars>>

\* The iteration ends: the child has closed its stdout and nothing is left.
RunEOF ==
    /\ AtRunner("next")
    /\ Running.buf = <<>>
    /\ RunningProc.pipe = <<>>
    /\ RunningProc.closed
    /\ runner' = Some([Running EXCEPT !.pc = "wait"])
    /\ UNCHANGED <<files, config, osproc, out, lstack, execVars, loadVars, substVars, procs>>

\* Lines 490-497: process.wait() returns and the return code is tested.
RunWait ==
    /\ AtRunner("wait")
    /\ RunningProc.state = "exited"
    /\ procs' = [procs EXCEPT ![Running.pid].state = "reaped"]
    /\ runner' = None
    /\ child' = None
    /\ stack' = SetTop(step_result(Top, IF command_succeeded(RunningProc.code[1])
                                        THEN "ok" ELSE "failed"))
    /\ UNCHANGED <<files, config, osproc, out, lstack, ret, log, calls, loadVars, substVars>>

----------------------------------------------------------------------------
(* Inputs: workflow names, step mappings, documents. *)

NameA == <<"A">>
NameB == <<"B">>
NameC == <<"C">>

StepData(name, type, command, ignore_errors, condition) ==
    [name |-> name, type |-> type, command |-> command, args |-> None,
     env |-> None, working_directory |-> None, ignore_errors |-> ignore_errors,
     condition |-> condition, complete |-> TRUE]

PlainStep(name) == StepData(name, "shell", <<"x">>, None, None)

Doc(includes, variables, steps) ==
    [parses |-> TRUE, includes |-> includes, variables |-> variables, steps |-> steps]

KeyK == <<"K">>
KeyF == <<"F">>
KeyG == <<"G">>
KeyU == <<"U">>

----------------------------------------------------------------------------
(* Specification SpecLoad: load_workflow over a directory of three         *)
(* workflows A, B and C with every include list up to MaxIncludes entries; *)
(* C is fine, absent, not parseable, or has a step without its keys.       *)

IdleRun ==
    /\ stack = <<>>
    /\ child = None
    /\ ret = None
    /\ log = <<>>
    /\ calls = 0

IdleLoad ==
    /\ loadArg = None
    /\ loaded = None

IdleSubst ==
    /\ sToks = <<>>
    /\ sText = <<>>
    /\ sVars = EmptyDict
    /\ sArgs = None
    /\ sOut = None
    /\ sCond = None

IdleRunner ==
    /\ procs = <<>>
    /\ runner = None
    /\ osproc = StartProc

IdleQuery ==
    /\ out = None
    /\ lstack = <<>>

LoadNames == {NameA, NameB, NameC}

LoadIncludeLists == UNION {[1..n -> LoadNames] : n \in 0..MaxIncludes}

CStates == {"ok", "missing", "yaml", "step"}

LoadWorld(ia, ib, ic, cs) ==
    (NameA :> Doc(ia, <<"K", "A">> :> <<"a">>, <<PlainStep("a1"), PlainStep("a2")>>))
    @@ (NameB :> Doc(ib, (KeyK :> <<"b">>) @@ (<<"K", "B">> :> <<"b">>),
                     <<PlainStep("b1")>>))
    @@ (IF cs = "missing" THEN EmptyDict
        ELSE NameC :> [parses |-> cs # "yaml",
                       includes |-> ic,
                       variables |-> (KeyK :> <<"c">>) @@ (<<"K", "C">> :> <<"c">>),
                       steps |-> <<[PlainStep("c1") EXCEPT !.complete = (cs # "step")]>>])

LoadWorlds ==
    {LoadWorld(ia, ib, ic, cs) :
        ia \in LoadIncludeLists, ib \in LoadIncludeLists,
        ic \in {<<>>, <<NameA>>}, cs \in CStates}

InitLoad ==
    /\ files \in LoadWorlds
    /\ config = <<>>
    /\ IdleRun
    /\ IdleRunner
    /\ IdleQuery
    /\ IdleLoad
    /\ IdleSubst

\* A caller calls engine.load_workflow(workflow_name).
LoadCall(workflow_name) ==
    /\ loadArg' = Some(workflow_name)
    /\ loaded' = Some(load_workflow(files, workflow_name))
    /\ UNCHANGED <<files, config, osproc, out, lstack, runVars, execVars, substVars>>

NextLoad == \E workflow_name \in LoadNames : LoadCall(workflow_name)

SpecLoad == InitLoad /\ [][NextLoad]_vars

----------------------------------------------------------------------------
(* Specification SpecChain: one load_workflow call followed call by call,  *)
(* over the documents of LoadWorld with include lists that hold            *)
(* self-includes, cycles of two and of three names and repeated names.     *)

ChainIncludeLists ==
    {<<>>, <<NameA>>, <<NameB>>, <<NameC>>, <<NameB, NameC>>, <<NameC, NameA>>,
     <<NameB, NameB>>}

ChainWorlds ==
    {LoadWorld(ia, ib, ic, cs) :
        ia \in ChainIncludeLists, ib \in ChainIncludeLists,
        ic \in ChainIncludeLists, cs \in {"ok", "missing", "step"}}

InitChain ==
    /\ files \in ChainWorlds
    /\ config = <<>>
    /\ IdleRun
    /\ IdleRunner
    /\ IdleQuery
    /\ IdleLoad
    /\ IdleSubst

NextChain ==
    \/ \E workflow_name \in LoadNames : LoadBegin(workflow_name)
    \/ LoadInclude
    \/ LoadReturn

\* The interpreter runs the call to its end: no step of it waits for
\* anything outside.
SpecChain == InitChain /\ [][NextChain]_vars /\ WF_vars(NextChain)

----------------------------------------------------------------------------
(* Specification SpecSubst: _substitute_variables and _evaluate_condition  *)
(* on texts written from up to MaxToks pieces, a piece being a literal     *)
(* text or a placeholder ${NAME}.                                          *)

Lit(t) == [ph |-> FALSE, s |-> t]
Ph(n) == [ph |-> TRUE, s |-> n]

LitTexts == {<<"t", "r", "u", "e">>, <<"T", "R", "U", "E">>, <<"T", "r", "u", "e">>, <<"x">>, <<"$">>, <<"{">>, <<"}">>, <<"$", "{", "}">>}
PhNames == {KeyF, KeyG, KeyU}

Pieces == {Lit(t) : t \in LitTexts} \cup {Ph(n) : n \in PhNames}

PieceSeqs == UNION {[1..n -> Pieces] : n \in 0..MaxToks}

Render(piece) == IF piece.ph THEN <<"$", "{">> \o piece.s \o <<"}">> ELSE piece.s

RenderAll(toks) == Concat([i \in 1..Len(toks) |-> Render(toks[i])])

SubstDicts ==
    {EmptyDict,
     KeyF :> <<"t", "r", "u", "e">>,
     KeyF :> <<"T", "r", "u", "e">>,
     KeyF :> <<>>,
     (KeyF :> <<"$", "{", "G", "}">>) @@ (KeyG :> <<"t", "r", "u", "e">>),
     (KeyF :> <<"f", "a", "l", "s", "e">>) @@ (KeyG :> <<"}">>)}

InitSubst ==
    /\ files = EmptyDict
    /\ config = <<>>
    /\ IdleRun
    /\ IdleRunner
    /\ IdleQuery
    /\ IdleLoad
    /\ sToks \in PieceSeqs
    /\ sText = RenderAll(sToks)
    /\ sVars \in SubstDicts
    /\ sArgs = None
    /\ sOut = None
    /\ sCond = None

SubstituteCall ==
    /\ sOut = None
    /\ sOut' = Some(substitute_variables(sText, sVars))
    /\ UNCHANGED <<files, config, osproc, out, lstack, runVars, execVars, loadVars, sToks, sText, sVars, sArgs, sCond>>

EvaluateCall ==
    /\ sCond = None
    /\ sCond' = Some(evaluate_condition(sText, sVars))
    /\ UNCHANGED <<files, config, osproc, out, lstack, runVars, execVars, loadVars, sToks, sText, sVars, sArgs, sOut>>

NextSubst == SubstituteCall \/ EvaluateCall

SpecSubst == InitSubst /\ [][NextSubst]_vars

----------------------------------------------------------------------------
(* Specification SpecConfig: get_available_variables of an engine built    *)
(* over a config.yaml that is absent, unparseable, empty or a mapping with *)
(* up to MaxKeys top-level entries of distinct keys.                       *)

Leaf(text) == [val |-> text]

\* The keys the documents are written with.
ConfKey ==
    [a |-> <<"a">>, A |-> <<"A">>, b |-> <<"b">>, a_b |-> <<"a", "_", "b">>,
     github |-> <<"g", "i", "t", "h", "u", "b">>,
     fork_org |-> <<"f", "o", "r", "k", "_", "o", "r", "g">>,
     github_fork_org |-> <<"g", "i", "t", "h", "u", "b", "_",
                           "f", "o", "r", "k", "_", "o", "r", "g">>,
     branch_name |-> <<"b", "r", "a", "n", "c", "h", "_", "n", "a", "m", "e">>,
     project_root |-> <<"p", "r", "o", "j", "e", "c", "t", "_", "r", "o", "o", "t">>]

ConfigEntries ==
    {<<ConfKey.a, Leaf(<<"1">>)>>,
     <<ConfKey.A, [bool |-> TRUE]>>,
     <<ConfKey.a, [kids |-> << <<ConfKey.b, Leaf(<<"3">>)>> >>]>>,
     <<ConfKey.a_b, Leaf(<<"2">>)>>,
     <<ConfKey.fork_org, Leaf(<<"o">>)>>,
     <<ConfKey.github_fork_org, Leaf(<<"p">>)>>,
     <<ConfKey.github, [kids |-> << <<ConfKey.fork_org, Leaf(<<"q">>)>>,
                                   <<ConfKey.branch_name, Leaf(<<"m">>)>> >>]>>,
     <<ConfKey.github, [kids |-> <<>>]>>,
     <<ConfKey.project_root, [null |-> TRUE]>>}

\* The keys of one mapping are distinct.
DistinctKeys(d) == \A i, j \in 1..Len(d) : d[i][1] = d[j][1] => i = j

ConfigDocs ==
    {d \in UNION {[1..n -> ConfigEntries] : n \in 0..MaxKeys} : DistinctKeys(d)}

ConfigFiles ==
    {<<>>, <<[parses |-> FALSE, doc |-> <<>>]>>}
        \cup {<<[parses |-> TRUE, doc |-> d]>> : d \in ConfigDocs}

InitConfig ==
    /\ files = EmptyDict
    /\ \E config_file \in ConfigFiles : config = load_config(config_file)
    /\ IdleRun
    /\ IdleRunner
    /\ IdleQuery
    /\ IdleLoad
    /\ IdleSubst

\* get_available_variables()
GetAvailableVariables ==
    /\ out = None
    /\ out' = Some(config_to_variables(config))
    /\ UNCHANGED <<files, config, osproc, lstack, runVars, execVars, loadVars, substVars>>

NextConfig == GetAvailableVariables

SpecConfig == InitConfig /\ [][NextConfig]_vars

----------------------------------------------------------------------------
(* Specification SpecArgs: the command and argument resolution of          *)
(* _execute_step over commands, args lists and mappings that hold          *)
(* whitespace.                                                             *)

Blank == <<" ">>
TextAB == <<"a", " ", "b">>

ArgPieces == {Lit(<<"x">>), Lit(Blank), Ph(KeyF), Ph(KeyU)}

ArgPieceSeqs == UNION {[1..n -> ArgPieces] : n \in 0..MaxToks}

ArgDicts ==
    {EmptyDict,
     KeyF :> <<>>,
     KeyF :> <<"a">>,
     KeyF :> Blank,
     KeyF :> TextAB}

ArgLists ==
    {None,
     Some(<<>>),
     Some(<<Render(Ph(KeyF))>>),
     Some(<<Render(Ph(KeyF)), TextAB>>)}

\* The step whose command and args _execute_step resolves.
ArgStep ==
    ParseStep([StepData(<<"s">>, "shell", sText, None, None) EXCEPT !.args = sArgs])

InitArgs ==
    /\ files = EmptyDict
    /\ config = <<>>
    /\ IdleRun
    /\ IdleRunner
    /\ IdleQuery
    /\ IdleLoad
    /\ sToks \in ArgPieceSeqs
    /\ sText = RenderAll(sToks)
    /\ sVars \in ArgDicts
    /\ sArgs \in ArgLists
    /\ sOut = None
    /\ sCond = None

\* Lines 304-318 of _execute_step.
ResolveCall ==
    /\ out = None
    /\ out' = Some(resolved_command(ArgStep, sVars))
    /\ UNCHANGED <<files, config, osproc, lstack, runVars, execVars, loadVars, substVars>>

NextArgs == ResolveCall

SpecArgs == InitArgs /\ [][NextArgs]_vars

----------------------------------------------------------------------------
(* Properties of the loader, checked under SpecLoad. *)

StepNames(steps) == [i \in 1..Len(steps) |-> steps[i].name]

LoadedDoc == files[loadArg[1]]

\* The step list load_workflow returns for an include loaded on its own.
StepsOfInclude(include_name) ==
    LET r == load_workflow(files, include_name)
    IN IF r.ok THEN r.steps ELSE <<"not loaded">>

\* C1: when no include at any level of the load was skipped, the step list
\* load_workflow returns is the step list of each include (as load_workflow
\* returns it for that include), in include order, followed by the workflow's
\* own steps in document order; with no includes it is the own steps.
C1_FlattenedSteps ==
    (loaded # None /\ loaded[1].ok /\ loaded[1].warnings = <<>>)
        => loaded[1].steps =
               Concat([i \in 1..Len(LoadedDoc.includes) |->
                          StepsOfInclude(LoadedDoc.includes[i])])
                   \o main_steps(LoadedDoc)

C1_Witness ==
    /\ loadArg = Some(NameA)
    /\ loaded # None
    /\ loaded[1].ok
    /\ loaded[1].warnings = <<>>
    /\ files[NameA].includes = <<NameB, NameC>>
    /\ files[NameB].includes = <<NameC>>
    /\ StepNames(loaded[1].steps) = <<"c1", "b1", "c1", "a1", "a2">>

Contains(seq, x) == \E i \in 1..Len(seq) : seq[i] = x

\* C3 (as claimed): loading A, whose includes contain B, whose includes
\* contain A, ends with the circular-include error (ValueError) and returns
\* no definition.
C3_CircularIncludeFails ==
    (/\ loadArg = Some(NameA)
     /\ loaded # None
     /\ Contains(files[NameA].includes, NameB)
     /\ files[NameB].parses
     /\ Contains(files[NameB].includes, NameA))
        => (~loaded[1].ok /\ loaded[1].error = "ValueError")

\* The load of the i-th include as the parent makes it: with the parent's
\* name in the set of workflows being loaded.
IncludeLoad(i) ==
    load_workflow_with_includes(files, LoadedDoc.includes[i], {loadArg[1]})

\* C9: a parent whose own document is well formed loads whatever happens to
\* its includes: a failing include contributes nothing and is reported, the
\* other includes contribute their steps in order, and the parent's own
\* steps and variables are added after them.
C9_FailedIncludeSkipped ==
    (/\ loaded # None
     /\ loadArg[1] \in DOMAIN files
     /\ LoadedDoc.parses
     /\ \A i \in 1..Len(LoadedDoc.steps) : LoadedDoc.steps[i].complete)
        => /\ loaded[1].ok
           /\ loaded[1].steps =
                  Concat([i \in 1..Len(LoadedDoc.includes) |->
                             IF IncludeLoad(i).ok THEN IncludeLoad(i).steps ELSE <<>>])
                      \o main_steps(LoadedDoc)
           /\ \A k \in DOMAIN LoadedDoc.variables :
                  /\ k \in DOMAIN loaded[1].variables
                  /\ loaded[1].variables[k] = LoadedDoc.variables[k]
           /\ \A i \in 1..Len(LoadedDoc.includes) :
                  ~IncludeLoad(i).ok => Contains(loaded[1].warnings, LoadedDoc.includes[i])

C9_Witness ==
    /\ loadArg = Some(NameA)
    /\ loaded # None
    /\ files[NameA].includes = <<NameC, NameB>>
    /\ NameC \notin DOMAIN files
    /\ files[NameB].includes = <<>>
    /\ loaded[1].ok
    /\ loaded[1].warnings = <<NameC>>
    /\ StepNames(loaded[1].steps) = <<"b1", "a1", "a2">>

\* The names in the includes list of a workflow ({} when it has no file).
IncludedBy(workflow_name) ==
    IF workflow_name \in DOMAIN files
    THEN {files[workflow_name].includes[i] :
              i \in 1..Len(files[workflow_name].includes)}
    ELSE {}

\* The names reached from the names of S by up to n include edges.
RECURSIVE ReachedFrom(_, _)
ReachedFrom(S, n) ==
    IF n = 0 THEN S
    ELSE ReachedFrom(S \cup UNION {IncludedBy(w) : w \in S}, n - 1)

Descendants(workflow_name) ==
    ReachedFrom(IncludedBy(workflow_name), Cardinality(LoadNames))

\* Nothing reached from the workflow is on an include cycle, and every
\* document reached is there and well formed.
SoundTree(workflow_name) ==
    \A w \in {workflow_name} \cup Descendants(workflow_name) :
        /\ w \notin Descendants(w)
        /\ w \in DOMAIN files
        /\ files[w].parses
        /\ \A j \in 1..Len(files[w].steps) : files[w].steps[j].complete

\* The number of include paths from workflow_name down to target.
RECURSIVE PathsFrom(_, _, _)
RECURSIVE PathsThrough(_, _, _)
PathsThrough(includes, target, fuel) ==
    IF includes = <<>> THEN 0
    ELSE PathsFrom(Head(includes), target, fuel)
             + PathsThrough(Tail(includes), target, fuel)
PathsFrom(workflow_name, target, fuel) ==
    IF workflow_name = target THEN 1
    ELSE IF fuel = 0 \/ workflow_name \notin DOMAIN files THEN 0
    ELSE PathsThrough(files[workflow_name].includes, target, fuel - 1)

\* How often the own steps of target occur in a step list.
Occurrences(steps, target) ==
    Cardinality({j \in 1..Len(steps) :
                    steps[j].name = files[target].steps[1].name})

\* C19: when no workflow reached from the loaded one is its own descendant
\* (and every document reached is well formed), nothing is reported as
\* circular or skipped, however many branches include the same workflow, and
\* the steps of each workflow occur once per include path that leads to it.
C19_SiblingsShareNothing ==
    (loaded # None /\ SoundTree(loadArg[1]))
        => /\ loaded[1].ok
           /\ loaded[1].warnings = <<>>
           /\ \A d \in Descendants(loadArg[1]) :
                  Occurrences(loaded[1].steps, d) =
                      PathsFrom(loadArg[1], d, Cardinality(LoadNames))

C19_Witness ==
    /\ loadArg = Some(NameA)
    /\ loaded # None
    /\ NameC \in DOMAIN files
    /\ files[NameA].includes = <<NameC, NameB>>
    /\ files[NameB].includes = <<NameC>>
    /\ files[NameC].includes = <<>>
    /\ loaded[1].ok
    /\ loaded[1].warnings = <<>>
    /\ StepNames(loaded[1].steps) = <<"c1", "c1", "b1", "a1", "a2">>

\* The variables of the i-th include of workflow_name as the load of
\* workflow_name with the visited set loaded_workflows gets them.
IncludeVariables(workflow_name, loaded_workflows, i) ==
    LET r == load_workflow_with_includes(files, files[workflow_name].includes[i],
                                         loaded_workflows \cup {workflow_name})
    IN IF r.ok THEN r.variables ELSE EmptyDict

\* C20: at every level of a load (any workflow, any set of ancestors), the
\* variables returned are, key by key, the workflow's own value when it
\* declares the key, else the value of the last include in the list that
\* loaded and defines the key; no other key is there.
C20_VariableOverlay ==
    loaded # None =>
        \A w \in LoadNames : \A visited \in SUBSET LoadNames :
            LET r == load_workflow_with_includes(files, w, visited)
            IN r.ok =>
                LET own == files[w].variables
                    n == Len(files[w].includes)
                    Defines(i, key) == key \in DOMAIN IncludeVariables(w, visited, i)
                IN /\ DOMAIN r.variables =
                          DOMAIN own \cup
                              UNION {DOMAIN IncludeVariables(w, visited, i) : i \in 1..n}
                   /\ \A key \in DOMAIN r.variables :
                          r.variables[key] =
                              IF key \in DOMAIN own THEN own[key]
                              ELSE LET last == CHOOSE i \in 1..n :
                                                   /\ Defines(i, key)
                                                   /\ \A l \in (i + 1)..n : ~Defines(l, key)
                                   IN IncludeVariables(w, visited, last)[key]

C20_Witness ==
    /\ loadArg = Some(NameA)
    /\ loaded # None
    /\ NameC \in DOMAIN files
    /\ files[NameC].parses
    /\ files[NameA].includes = <<NameB, NameC>>
    /\ files[NameB].includes = <<NameC>>
    /\ loaded[1].ok
    /\ loaded[1].warnings = <<>>
    /\ loaded[1].variables[KeyK] = <<"c">>
    /\ load_workflow(files, NameB).variables[KeyK] = <<"b">>

----------------------------------------------------------------------------
(* Properties of substitution and conditions, checked under SpecSubst. *)

\* No "${" is spelled across two literal pieces, so the placeholders of the
\* text are exactly its placeholder pieces.
Faithful(toks) ==
    \A i \in 1..(Len(toks) - 1) :
        ~(/\ ~toks[i].ph
          /\ ~toks[i + 1].ph
          /\ toks[i].s[Len(toks[i].s)] = "$"
          /\ toks[i + 1].s[1] = "{")

SubstPiece(piece, variables) ==
    IF piece.ph /\ piece.s \in DOMAIN variables THEN variables[piece.s]
    ELSE Render(piece)

EqualsTrueIgnoringCase(text) ==
    /\ Len(text) = 4
    /\ text[1] \in {"t", "T"}
    /\ text[2] \in {"r", "R"}
    /\ text[3] \in {"u", "U"}
    /\ text[4] \in {"e", "E"}

\* C7: evaluate_condition returns true exactly when the substituted text is
\* "true" in any letter case, false for everything else.
C7_ConditionIsTrueIgnoringCase ==
    (sCond # None /\ sOut # None)
        => (sCond[1] <=> EqualsTrueIgnoringCase(sOut[1]))

C7_Witness ==
    /\ sToks = <<Ph(KeyF)>>
    /\ sVars = (KeyF :> <<"T", "r", "u", "e">>)
    /\ sOut = Some(<<"T", "r", "u", "e">>)
    /\ sCond = Some(TRUE)

\* C8: every placeholder whose name is a key is replaced by the key's value,
\* every other placeholder and every literal piece is left as written.
C8_SubstitutePlaceholders ==
    (sOut # None /\ Faithful(sToks))
        => sOut[1] = Concat([i \in 1..Len(sToks) |-> SubstPiece(sToks[i], sVars)])

C8_Witness ==
    /\ sToks = <<Ph(KeyF), Ph(KeyU)>>
    /\ sVars = ((KeyF :> <<"f", "a", "l", "s", "e">>) @@ (KeyG :> <<"}">>))
    /\ sOut = Some(<<"f", "a", "l", "s", "e", "$", "{", "U", "}">>)

\* Where the text written for piece i starts in the result, when the pieces
\* before it came out as SubstPiece says.
OffsetOf(toks, variables, i) ==
    Len(Concat([k \in 1..(i - 1) |-> SubstPiece(toks[k], variables)]))

\* The value holds a placeholder that the mapping would resolve to
\* something else than the placeholder itself.
HasLiveReference(value, variables) ==
    \E i \in 1..Len(value) :
        /\ MatchEnd(value, i) # 0
        /\ LET name == SubSeq(value, i + 2, MatchEnd(value, i) - 1)
           IN /\ name \in DOMAIN variables
              /\ variables[name] # SubSeq(value, i, MatchEnd(value, i))

\* C21: the value put in for a placeholder is in the result as it is in the
\* mapping, placeholders inside it included; when such a value holds a
\* placeholder the mapping resolves, substituting the result once more
\* gives a different text.
C21_SinglePass ==
    (sOut # None /\ Faithful(sToks)) =>
        \A i \in 1..Len(sToks) :
            (sToks[i].ph /\ sToks[i].s \in DOMAIN sVars) =>
                LET value == sVars[sToks[i].s]
                    at == OffsetOf(sToks, sVars, i)
                IN /\ Len(sOut[1]) >= at + Len(value)
                   /\ SubSeq(sOut[1], at + 1, at + Len(value)) = value
                   /\ HasLiveReference(value, sVars) =>
                          substitute_variables(sOut[1], sVars) # sOut[1]

C21_Witness ==
    /\ sToks = <<Lit(<<"x">>), Ph(KeyF)>>
    /\ sVars = ((KeyF :> <<"$", "{", "G", "}">>) @@ (KeyG :> <<"t", "r", "u", "e">>))
    /\ sOut = Some(<<"x", "$", "{", "G", "}">>)
    /\ sCond = Some(FALSE)

----------------------------------------------------------------------------
(* Properties of the configuration-derived mapping, checked under          *)
(* SpecConfig.                                                             *)

\* The non-mapping leaves of a configuration in document order, each as
\* <<upper-cased key path joined with "_", string form of the leaf>>.
RECURSIVE ConfigLeaves(_, _)
ConfigLeaves(d, prefix) ==
    Concat([i \in 1..Len(d) |->
        IF IsMapping(d[i][2])
        THEN ConfigLeaves(d[i][2].kids, prefix \o Upper(d[i][1]) \o <<"_">>)
        ELSE << <<prefix \o Upper(d[i][1]), Str(d[i][2])>> >>])

LeafKeys(leaves) == {leaves[i][1] : i \in 1..Len(leaves)}

PathVariables ==
    (K_PROJECT_ROOT :> ProjectRoot)
        @@ (K_LOCAL_CHECKOUTS_DIR :> PathJoin(ProjectRoot, <<"s", "r", "c">>))
        @@ (K_WORKFLOWS_DIR :> WorkflowsDir)

\* What C24 says besides the leaves: the two aliases, the three paths, and
\* no key that comes from nowhere.
AliasesAndPaths(leaves, mapping) ==
    /\ K_GITHUB_FORK_ORG \in DOMAIN mapping =>
           /\ K_FORK_ORG \in DOMAIN mapping
           /\ mapping[K_FORK_ORG] = mapping[K_GITHUB_FORK_ORG]
    /\ K_GITHUB_BRANCH_NAME \in DOMAIN mapping =>
           /\ K_BRANCH_NAME \in DOMAIN mapping
           /\ mapping[K_BRANCH_NAME] = mapping[K_GITHUB_BRANCH_NAME]
    /\ \A key \in DOMAIN PathVariables :
           key \in DOMAIN mapping /\ mapping[key] = PathVariables[key]
    /\ DOMAIN mapping =
           LeafKeys(leaves) \cup DOMAIN PathVariables
             \cup (IF K_GITHUB_FORK_ORG \in LeafKeys(leaves) THEN {K_FORK_ORG} ELSE {})
             \cup (IF K_GITHUB_BRANCH_NAME \in LeafKeys(leaves) THEN {K_BRANCH_NAME} ELSE {})

\* C24 (as claimed): every leaf's key is in the mapping with the string
\* form of that leaf as its value; FORK_ORG and BRANCH_NAME equal their
\* GITHUB_ keys when those are present; the three path variables are
\* always there; no other key is.
C24_EveryLeafKept ==
    out # None =>
        LET leaves == ConfigLeaves(config, <<>>)
        IN /\ \A i \in 1..Len(leaves) :
                  /\ leaves[i][1] \in DOMAIN out[1]
                  /\ out[1][leaves[i][1]] = leaves[i][2]
           /\ AliasesAndPaths(leaves, out[1])

\* The keys whose value the aliases and the paths set after flattening.
SetAfterFlatten(leaves) ==
    DOMAIN PathVariables
      \cup (IF K_GITHUB_FORK_ORG \in LeafKeys(leaves) THEN {K_FORK_ORG} ELSE {})
      \cup (IF K_GITHUB_BRANCH_NAME \in LeafKeys(leaves) THEN {K_BRANCH_NAME} ELSE {})

\* C24 (amended): every leaf's key is in the mapping; its value is the
\* string form of the last leaf in document order with that key, unless
\* the key is one an alias or a path variable sets; the rest as claimed.
C24_LastLeafKept ==
    out # None =>
        LET leaves == ConfigLeaves(config, <<>>)
        IN /\ \A i \in 1..Len(leaves) :
                  /\ leaves[i][1] \in DOMAIN out[1]
                  /\ (/\ leaves[i][1] \notin SetAfterFlatten(leaves)
                      /\ \A j \in (i + 1)..Len(leaves) : leaves[j][1] # leaves[i][1])
                         => out[1][leaves[i][1]] = leaves[i][2]
           /\ AliasesAndPaths(leaves, out[1])

\* Two leaves flatten to A_B; the mapping holds the later one.
C24_Witness ==
    /\ config = << <<ConfKey.a, [kids |-> << <<ConfKey.b, Leaf(<<"3">>)>> >>]>>,
                   <<ConfKey.a_b, Leaf(<<"2">>)>> >>
    /\ out # None
    /\ out[1][<<"A", "_", "B">>] = <<"2">>

----------------------------------------------------------------------------
(* Properties of the command resolution, checked under SpecArgs. *)

\* C22: without args the substituted command is split on whitespace, its
\* first token is the program and the other tokens are the arguments; with
\* args the command is the program unsplit and the arguments are the args
\* elements, each substituted on its own, one argument per element.
C22_ProgramAndArguments ==
    out # None =>
        LET command == substitute_variables(sText, sVars)
            tokens == Split(command)
        IN IF sArgs = None
           THEN tokens # <<>> =>
                    /\ out[1].command = tokens[1]
                    /\ out[1].args = Tail(tokens)
           ELSE /\ out[1].command = command
                /\ Len(out[1].args) = Len(sArgs[1])
                /\ \A k \in 1..Len(sArgs[1]) :
                       out[1].args[k] = substitute_variables(sArgs[1][k], sVars)

\* The parts of C22 that the code keeps: the args branch, and the omitted
\* args branch when the command has more than one token.
C22_SplitWhenSeveralTokens ==
    out # None =>
        LET command == substitute_variables(sText, sVars)
            tokens == Split(command)
        IN IF sArgs = None
           THEN IF Len(tokens) > 1
                THEN out[1].command = tokens[1] /\ out[1].args = Tail(tokens)
                ELSE out[1].command = command /\ out[1].args = <<>>
           ELSE /\ out[1].command = command
                /\ Len(out[1].args) = Len(sArgs[1])
                /\ \A k \in 1..Len(sArgs[1]) :
                       out[1].args[k] = substitute_variables(sArgs[1][k], sVars)

----------------------------------------------------------------------------
(* Specification Spec: execute_workflow over a directory holding           *)
(*   A  up to MaxSteps own steps drawn from StepChoices, alone, or with    *)
(*      includes: [B], or with includes: [B] and its own variable F,       *)
(*   B  one shell step guarded by condition "${F}", variables {F: "true"}, *)
(*   M  a file that does not parse,                                        *)
(*   N  includes: [B] and one own step without its required keys,          *)
(* and no file for C; config.yaml is empty or sets f and github.fork_org.  *)

NameM == <<"M">>
NameN == <<"N">>

CondF == <<"$", "{", "F", "}">>

StepChoices ==
    {StepData("kubectl_ignore", "kubectl", <<"x">>, Some(TRUE), None),
     StepData("tool_if_F", "tool", <<"x">>, Some(FALSE), Some(CondF)),
     StepData("shell_if_empty", "shell", <<"x">>, None, Some(<<>>)),
     StepData("bogus", "bogus", <<"x">>, None, None),
     StepData("bogus_ignore", "bogus", <<"x">>, Some(TRUE), None),
     StepData("nested_B", "workflow", NameB, None, None),
     StepData("nested_C", "workflow", NameC, None, None),
     StepData("nested_C_ignore", "workflow", NameC, Some(TRUE), None),
     StepData("nested_A", "workflow", NameA, None, None)}

StepSeqs == UNION {[1..n -> StepChoices] : n \in 0..MaxSteps}

RunWorld(includes, variables, steps) ==
    (NameA :> Doc(includes, variables, steps))
    @@ (NameB :> Doc(<<>>, KeyF :> <<"t", "r", "u", "e">>,
                     <<StepData("b1", "shell", <<"x">>, None, Some(CondF))>>))
    @@ (NameM :> [parses |-> FALSE, includes |-> <<>>, variables |-> EmptyDict,
                  steps |-> <<>>])
    @@ (NameN :> Doc(<<NameB>>, EmptyDict,
                     <<[PlainStep("n1") EXCEPT !.complete = FALSE]>>))

\* A alone, A including B, A including B and setting F itself.
HeadChoices ==
    {[includes |-> <<>>, variables |-> EmptyDict],
     [includes |-> <<NameB>>, variables |-> EmptyDict],
     [includes |-> <<NameB>>, variables |-> KeyF :> <<"T", "R", "U", "E">>]}

RunWorlds ==
    {RunWorld(head.includes, head.variables, steps) :
        head \in HeadChoices, steps \in StepSeqs}

RunConfigs ==
    {<<>>,
     << <<<<"f">>, [val |-> <<"f", "a", "l", "s", "e">>]>>,
        <<<<"g", "i", "t", "h", "u", "b">>, [kids |-> << <<<<"f", "o", "r", "k", "_", "o", "r", "g">>, [val |-> <<"o">>]>> >>]>> >>}

RuntimeChoices == {EmptyDict, KeyF :> <<"n", "o">>}

RunNames == {NameA, NameB, NameC, NameM, NameN}

Init ==
    /\ files \in RunWorlds
    /\ config \in RunConfigs
    /\ IdleRun
    /\ IdleRunner
    /\ IdleQuery
    /\ IdleLoad
    /\ IdleSubst

Next ==
    \/ \E workflow_name \in RunNames, variables \in RuntimeChoices :
           ExecuteWorkflow(workflow_name, variables)
    \/ StepSkipped
    \/ StepSpawns
    \/ StepSpawnFails
    \/ \E returncode \in ExitCodes : ChildExits(returncode)
    \/ StepUnknownType
    \/ StepNestedCall
    \/ StepNestedLoadFails
    \/ Return

\* Nested calls are followed while fewer than MaxDepth calls are in progress.
Spec == Init /\ [][Next]_vars

----------------------------------------------------------------------------
(* Specification SpecRecursion: execute_workflow as in Spec and up to the  *)
(* recursion limit of the interpreter, over                                *)
(* documents in which A has up to two steps, among them steps that call A  *)
(* itself with and without ignore_errors; B, M, N and C are as in          *)
(* RunWorld and config.yaml is empty.                                      *)

RecursionSteps ==
    {StepData("kubectl_ignore", "kubectl", <<"x">>, Some(TRUE), None),
     StepData("tool_if_F", "tool", <<"x">>, Some(FALSE), Some(CondF)),
     StepData("bogus_ignore", "bogus", <<"x">>, Some(TRUE), None),
     StepData("nested_C_ignore", "workflow", NameC, Some(TRUE), None),
     StepData("nested_A", "workflow", NameA, None, None),
     StepData("nested_A_ignore", "workflow", NameA, Some(TRUE), None)}

RecursionWorlds ==
    {RunWorld(<<>>, EmptyDict, steps) :
        steps \in UNION {[1..n -> RecursionSteps] : n \in {1, 2}}}

InitRecursion ==
    /\ files \in RecursionWorlds
    /\ config = <<>>
    /\ IdleRun
    /\ IdleRunner
    /\ IdleQuery
    /\ IdleLoad
    /\ IdleSubst

\* MaxDepth stands for the depth at which the interpreter's recursion limit
\* is reached.
NextRecursion == Next \/ StepRecursionError

SpecRecursion == InitRecursion /\ [][NextRecursion]_vars

----------------------------------------------------------------------------
(* Specification SpecPreview: one preview_workflow_variables call and one  *)
(* execute_workflow call, in either order, on the same engine: A with each *)
(* head of HeadChoices and one step, B, M, N and no C as in RunWorld, and  *)
(* each configuration of RunConfigs.                                       *)

PreviewWorlds ==
    {RunWorld(head.includes, head.variables, <<PlainStep("a1")>>) :
        head \in HeadChoices}

InitPreview ==
    /\ files \in PreviewWorlds
    /\ config \in RunConfigs
    /\ IdleRun
    /\ IdleRunner
    /\ IdleQuery
    /\ IdleLoad
    /\ IdleSubst

\* preview_workflow_variables(workflow_name, runtime_vars); out keeps the
\* arguments beside the result.
PreviewCall(workflow_name, runtime_vars) ==
    /\ out = None
    /\ out' = Some([workflow_name |-> workflow_name, runtime_vars |-> runtime_vars,
                    result |-> preview_workflow_variables(files, config,
                                                          workflow_name, runtime_vars)])
    /\ UNCHANGED <<files, config, osproc, lstack, runVars, execVars, loadVars, substVars>>

\* The one execute_workflow call; the run is followed up to its first step.
ExecuteCall(workflow_name, variables) ==
    /\ calls = 0
    /\ ExecuteWorkflow(workflow_name, variables)

NextPreview ==
    \/ \E workflow_name \in RunNames, runtime_vars \in RuntimeChoices :
           PreviewCall(workflow_name, runtime_vars)
    \/ \E workflow_name \in RunNames, variables \in RuntimeChoices :
           ExecuteCall(workflow_name, variables)

SpecPreview == InitPreview /\ [][NextPreview]_vars

----------------------------------------------------------------------------
(* Specification SpecRun: one execute_workflow("A") with _run_command in   *)
(* detail.  A declares F and has two steps, the first with ignore_errors:  *)
(* either a shell step with args, env and working_directory written with   *)
(* ${F}, or a workflow step calling B, which holds that shell step; the    *)
(* second is a kubectl step whose command is split into words.  Every      *)
(* child writes up to MaxLines lines, decodable or not, and exits with a   *)
(* code of RunExitCodes.                                                   *)

RefF == <<"$", "{", "F", "}">>
KeyE == <<"E">>
ValueF == <<"v">>

EnvStep ==
    [StepData("s1", "shell", RefF, Some(TRUE), None) EXCEPT
        !.args = Some(<<RefF, <<"a", " ", "b">>, <<"$", "{", "U", "}">>>>),
        !.env = Some((KeyE :> (<<"e", "-">> \o RefF)) @@ (KeyHome :> <<"/", "o">>)),
        !.working_directory = Some(<<"/">> \o RefF)]

SplitStep ==
    StepData("s2", "kubectl", <<"g", "e", "t", " ">> \o RefF \o <<" ", " ", "-", "o">>,
             None, None)

RunnerWorlds ==
    {NameA :> Doc(<<>>, KeyF :> ValueF, <<EnvStep, SplitStep>>),
     (NameA :> Doc(<<>>, KeyF :> ValueF,
                   <<StepData("nested_B", "workflow", NameB, Some(TRUE), None),
                     SplitStep>>))
        @@ (NameB :> Doc(<<>>, EmptyDict, <<EnvStep>>))}

InitRun ==
    /\ files \in RunnerWorlds
    /\ config = <<>>
    /\ IdleRun
    /\ IdleRunner
    /\ IdleQuery
    /\ IdleLoad
    /\ IdleSubst

\* The one call of the run.
RunnerCall ==
    /\ calls = 0
    /\ ExecuteWorkflow(NameA, EmptyDict)

NextRun ==
    \/ RunnerCall
    \/ RunPopen
    \/ StepSpawnFails
    \/ \E pid \in 1..Len(procs), kind \in LineKinds : ChildWrites(pid, kind)
    \/ \E pid \in 1..Len(procs) : ChildCloses(pid)
    \/ \E pid \in 1..Len(procs), code \in RunExitCodes : ChildTerminates(pid, code)
    \/ RunNextLine
    \/ RunReadRaises
    \/ RunPrint
    \/ RunEOF
    \/ RunWait
    \/ StepNestedCall
    \/ Return

SpecRun == InitRun /\ [][NextRun]_vars

----------------------------------------------------------------------------
(* Properties of the orchestrator, checked under Spec. *)

\* Every execute_workflow call that loaded its definition and is in
\* progress or was the last to return.
RunFrames ==
    {stack[k] : k \in 1..Len(stack)}
        \cup (IF ret # None /\ ret[1].load_ok THEN {ret[1]} ELSE {})

\* What the run spawned or called for step j of call f.
Executed(f, j) == \E k \in 1..Len(log) : log[k].call = f.id /\ log[k].step = j

\* C2: the active mapping of every run is config below workflow-declared
\* variables below the caller's runtime variables, key by key.
C2_VariableLayers ==
    LET cv == config_to_variables(config)
    IN \A f \in RunFrames :
           /\ DOMAIN f.runtime_vars =
                  DOMAIN cv \cup DOMAIN f.workflow_variables \cup DOMAIN f.variables
           /\ \A k \in DOMAIN f.runtime_vars :
                  f.runtime_vars[k] =
                      IF k \in DOMAIN f.variables THEN f.variables[k]
                      ELSE IF k \in DOMAIN f.workflow_variables
                      THEN f.workflow_variables[k]
                      ELSE cv[k]

C2_Witness ==
    /\ stack # <<>>
    /\ stack[1].workflow_name = NameA
    /\ KeyF \in DOMAIN config_to_variables(config)
    /\ config_to_variables(config)[KeyF] = <<"f", "a", "l", "s", "e">>
    /\ files[NameA].variables = (KeyF :> <<"T", "R", "U", "E">>)
    /\ stack[1].variables = (KeyF :> <<"n", "o">>)
    /\ stack[1].runtime_vars[KeyF] = <<"n", "o">>

\* C4: a failed step without ignore_errors is the last step of its run: the
\* run returns False at once and nothing is spawned or called for a later
\* step; after a failed step with ignore_errors the next step is taken up.
C4_AbortOrContinue ==
    \A f \in RunFrames :
        \A j \in 1..Len(f.outcomes) :
            f.outcomes[j] = "failed" =>
                IF ~f.steps[j].ignore_errors
                THEN /\ j = Len(f.outcomes)
                     /\ f.pc = "return"
                     /\ f.result = FALSE
                     /\ \A k \in (j + 1)..Len(f.steps) : ~Executed(f, k)
                ELSE j < Len(f.steps) =>
                         \/ Len(f.outcomes) > j
                         \/ (f.i = j + 1 /\ f.pc \in {"loop", "run", "call"})

C4_Witness ==
    /\ ret # None
    /\ ret[1].id = 1
    /\ ret[1].load_ok
    /\ Len(ret[1].steps) = 3
    /\ ~ret[1].steps[2].ignore_errors
    /\ ret[1].outcomes = <<"ok", "failed">>
    /\ ret[1].result = FALSE
    /\ Executed(ret[1], 1)
    /\ Executed(ret[1], 2)
    /\ ~Executed(ret[1], 3)

\* C5: a run that loaded returns True exactly when every failed step of it
\* has ignore_errors.
C5_ResultIffFailuresIgnored ==
    (ret # None /\ ret[1].load_ok)
        => (ret[1].result <=>
                \A j \in 1..Len(ret[1].outcomes) :
                    ret[1].outcomes[j] = "failed" => ret[1].steps[j].ignore_errors)

C5_Witness ==
    /\ ret # None
    /\ ret[1].id = 1
    /\ ret[1].load_ok
    /\ ret[1].result = TRUE
    /\ \E j \in 1..Len(ret[1].outcomes) : ret[1].outcomes[j] = "failed"
    /\ \E j \in 1..Len(ret[1].outcomes) : ret[1].outcomes[j] = "ok"

\* C6 (as claimed): a step whose condition is present and whose substituted
\* value is not "true" in any letter case (the empty string included) is
\* counted as skipped and nothing is spawned or called for it.
C6_FalseConditionSkips ==
    \A f \in RunFrames :
        \A j \in 1..Len(f.steps) :
            (/\ f.steps[j].condition # None
             /\ ~EqualsTrueIgnoringCase(
                    substitute_variables(f.steps[j].condition[1], f.runtime_vars)))
                => /\ ~Executed(f, j)
                   /\ j <= Len(f.outcomes) => f.outcomes[j] = "skipped"

\* C10 (as claimed): a call whose definition did not load reports something
\* other than the False of a run that failed at a step.
C10_LoadFailureDistinct ==
    (ret # None /\ ~ret[1].load_ok) => ret[1].result # FALSE

\* C10 (amended): a call whose definition did not load returns False, as a
\* run that failed at a step does; it has run no step, and the two differ in
\* the line printed last.
C10_LoadFailureReturnsFalse ==
    ret # None =>
        /\ ~ret[1].load_ok =>
               /\ ret[1].result = FALSE
               /\ ret[1].last_line = "Error loading workflow"
               /\ ret[1].outcomes = <<>>
               /\ \A k \in 1..Len(log) : log[k].call # ret[1].id
        /\ (ret[1].load_ok /\ ~ret[1].result) =>
               /\ ret[1].last_line = "Workflow failed at step"
               /\ ret[1].outcomes # <<>>
               /\ ret[1].outcomes[Len(ret[1].outcomes)] = "failed"

C10_Witness ==
    /\ ret # None
    /\ ret[1].id = 1
    /\ ret[1].workflow_name = NameM
    /\ ~ret[1].load_ok
    /\ ret[1].result = FALSE
    /\ stack = <<>>

\* The top-level document cannot be loaded: no file, not a mapping, or an own
\* step without name, type or command (a failing include never fails the
\* load of its parent, and the top-level name has no ancestors).
TopLevelLoadFails(workflow_name) ==
    \/ workflow_name \notin DOMAIN files
    \/ ~files[workflow_name].parses
    \/ \E j \in 1..Len(files[workflow_name].steps) :
           ~files[workflow_name].steps[j].complete

\* C11: when the definition named in a top-level execute_workflow call cannot
\* be loaded, the call never has a frame: it returns without having taken up,
\* spawned or called anything, also when the includes of the document loaded.
C11_FailedLoadRunsNothing ==
    /\ \A k \in 1..Len(stack) :
           stack[k].id = 1 => ~TopLevelLoadFails(stack[k].workflow_name)
    /\ (ret # None /\ ret[1].id = 1 /\ TopLevelLoadFails(ret[1].workflow_name))
           => /\ ~ret[1].load_ok
              /\ ret[1].outcomes = <<>>
              /\ stack = <<>>
              /\ log = <<>>
              /\ child = None
              /\ calls = 1

C11_Witness ==
    /\ ret # None
    /\ ret[1].id = 1
    /\ ret[1].workflow_name = NameN
    /\ load_workflow(files, NameB).ok
    /\ ~ret[1].load_ok
    /\ log = <<>>
    /\ stack = <<>>

\* The step the call below frame k of the stack is blocked in.
CallerStep(k) == stack[k - 1].steps[stack[k - 1].i]

C12_Frames ==
    /\ \A k \in 2..Len(stack) :
           /\ stack[k - 1].pc = "call"
           /\ CallerStep(k).type = "workflow"
           /\ stack[k].workflow_name =
                  resolved_command(CallerStep(k), stack[k - 1].runtime_vars).command
           /\ stack[k].variables = stack[k - 1].runtime_vars
           /\ \A key \in DOMAIN stack[k - 1].runtime_vars :
                  /\ key \in DOMAIN stack[k].runtime_vars
                  /\ stack[k].runtime_vars[key] = stack[k - 1].runtime_vars[key]
    /\ \A f \in RunFrames :
           \A k \in 1..Len(log) :
               (log[k].call = f.id /\ f.steps[log[k].step].type = "workflow")
                   => log[k].ev = "nested"
    /\ child # None => Top.pc = "run"

C12_Returns ==
    /\ (Len(stack) >= 2 /\ Top.pc = "return" /\ Len(stack') = Len(stack) - 1)
           => stack'[Len(stack')].outcomes =
                  Append(stack[Len(stack) - 1].outcomes,
                         IF Top.result THEN "ok" ELSE "failed")
    /\ (AtNestedCall /\ Len(stack') = Len(stack) /\ stack' # stack)
           => /\ ret' # None
              /\ ~ret'[1].load_ok
              /\ ~ret'[1].result
              /\ ret'[1].variables = Top.runtime_vars
              /\ stack'[Len(stack')].outcomes = Append(Top.outcomes, "failed")

\* C12: a workflow-typed step spawns no child; it enters execute_workflow with
\* the step's resolved command as the name and the caller's active mapping as
\* the runtime variables, so every key of the caller's mapping keeps the
\* caller's value in the nested run whatever the nested workflow declares;
\* what the step returns is what the nested call returned.
C12_NestedWorkflowStep == []C12_Frames /\ [][C12_Returns]_vars

C12_Witness ==
    /\ Len(stack) = 2
    /\ stack[1].workflow_name = NameA
    /\ stack[2].workflow_name = NameB
    /\ files[NameA].variables = (KeyF :> <<"T", "R", "U", "E">>)
    /\ stack[1].variables = EmptyDict
    /\ stack[1].runtime_vars[KeyF] = <<"T", "R", "U", "E">>
    /\ stack[2].workflow_variables[KeyF] = <<"t", "r", "u", "e">>
    /\ stack[2].runtime_vars[KeyF] = <<"T", "R", "U", "E">>
    /\ log # <<>>
    /\ log[Len(log)].ev = "nested"

KnownTypes == {"tool", "kubectl", "shell", "workflow"}

\* C13: a step of unknown type that reaches the dispatch fails, nothing is
\* spawned or called for it, and the loop treats the failure as any other:
\* without ignore_errors the run returns False there, with ignore_errors the
\* next step is taken up.
C13_UnknownTypeFails ==
    \A f \in RunFrames :
        \A j \in 1..Len(f.steps) :
            (f.steps[j].type \notin KnownTypes) =>
                /\ ~Executed(f, j)
                /\ (j <= Len(f.outcomes)
                      /\ ~condition_skips(f.steps[j], f.runtime_vars)) =>
                       /\ f.outcomes[j] = "failed"
                       /\ IF ~f.steps[j].ignore_errors
                          THEN /\ j = Len(f.outcomes)
                               /\ f.pc = "return"
                               /\ f.result = FALSE
                          ELSE j < Len(f.steps) =>
                                   \/ Len(f.outcomes) > j
                                   \/ (f.i = j + 1 /\ f.pc \in {"loop", "run", "call"})

C13_Witness ==
    /\ ret # None
    /\ ret[1].id = 1
    /\ ret[1].load_ok
    /\ Len(ret[1].steps) = 2
    /\ ret[1].steps[1].type = "bogus"
    /\ ret[1].steps[1].ignore_errors
    /\ ret[1].steps[2].type = "kubectl"
    /\ ret[1].outcomes = <<"failed", "ok">>
    /\ ret[1].result = TRUE
    /\ log = <<[ev |-> "spawn", call |-> 1, step |-> 2]>>

IsPrefix(a, b) == Len(a) <= Len(b) /\ SubSeq(b, 1, Len(a)) = a

C17_Order ==
    \A f \in RunFrames :
        /\ f.pc \in {"loop", "run", "call"} => Len(f.outcomes) = f.i - 1
        /\ Len(f.outcomes) <= Len(f.steps)
        /\ \A k \in 1..Len(log) :
               log[k].call = f.id =>
                   /\ log[k].step <= f.i
                   /\ \A l \in (k + 1)..Len(log) :
                          log[l].call = f.id => log[k].step < log[l].step
        /\ LET own == main_steps(files[f.workflow_name])
           IN /\ Len(own) <= Len(f.steps)
              /\ SubSeq(f.steps, Len(f.steps) - Len(own) + 1, Len(f.steps)) = own

C17_Forward ==
    /\ stack # <<>> => IsPrefix(log, log')
    /\ \A k \in 1..Len(stack) :
           k <= Len(stack') =>
               /\ stack'[k].id = stack[k].id
               /\ stack'[k].steps = stack[k].steps
               /\ stack'[k].i >= stack[k].i
               /\ stack'[k].i <= stack[k].i + 1
               /\ IsPrefix(stack[k].outcomes, stack'[k].outcomes)

\* C17: within one call the steps are taken up by strictly increasing index
\* of the flattened list, each at most once; the index never goes back, what
\* was recorded or printed stays, and the workflow's own steps are the tail of
\* the list, after every step that came from an include.
C17_ForwardOnly == []C17_Order /\ [][C17_Forward]_vars

C17_Witness ==
    /\ ret # None
    /\ ret[1].id = 1
    /\ ret[1].load_ok
    /\ ret[1].workflow_name = NameA
    /\ files[NameA].includes = <<NameB>>
    /\ StepNames(ret[1].steps) = <<"b1", "kubectl_ignore", "tool_if_F">>
    /\ ret[1].outcomes = <<"ok", "failed", "ok">>
    /\ log = <<[ev |-> "spawn", call |-> 1, step |-> 1],
               [ev |-> "spawn", call |-> 1, step |-> 2],
               [ev |-> "spawn", call |-> 1, step |-> 3]>>

----------------------------------------------------------------------------
(* Properties of the process runner, checked under SpecRun. *)

Pids == 1..Len(procs)

\* _run_command has returned for child pid.
Returned(pid) == runner = None \/ Running.pid # pid

C15_EchoThenVerdictAfterExit ==
    \A pid \in Pids :
        /\ procs[pid].echo = [k \in 1..Len(procs[pid].echo) |-> k]
        /\ Len(procs[pid].echo) <= Len(procs[pid].lines)
        /\ Returned(pid) =>
               /\ procs[pid].closed
               /\ procs[pid].state # "running"

\* C16 (as claimed): at most one child is running at any time; once
\* _run_command has returned for a child, the child has terminated and its
\* pipe is empty; a call that has a nested call above it stays in its
\* workflow-typed step.
C16_OneChildAtATime ==
    /\ Cardinality({pid \in Pids : procs[pid].state = "running"}) <= 1
    /\ \A pid \in Pids :
           Returned(pid) =>
               /\ procs[pid].state # "running"
               /\ procs[pid].pipe = <<>>
    /\ \A k \in 2..Len(stack) : stack[k - 1].pc = "call"

\* The frame of the call that started child pid, while it is still at hand.
FramesOf(pid) == {f \in RunFrames : f.id = procs[pid].call}

\* The words of the command line after substitution (lines 305-318).
ExpectedWords(step, variables) ==
    IF step.args = None
    THEN Split(substitute_variables(step.command, variables))
    ELSE <<substitute_variables(step.command, variables)>>
             \o [k \in 1..Len(step.args[1]) |->
                     substitute_variables(step.args[1][k], variables)]

\* C18 (as claimed): the child is started with the command, each argument,
\* the working directory and every value of env after ${VAR} substitution
\* against the active mapping.
C18_SubstitutedEverywhere ==
    \A pid \in Pids :
        \A f \in FramesOf(pid) :
            LET step == f.steps[procs[pid].step]
                words == ExpectedWords(step, f.runtime_vars)
                popen == procs[pid].popen
            IN /\ popen.cmd = command_line(step.type, Head(words), Tail(words))
               /\ step.working_directory # None =>
                      popen.cwd = substitute_variables(step.working_directory[1],
                                                       f.runtime_vars)
               /\ step.env # None =>
                      \A key \in DOMAIN step.env[1] :
                          popen.env[key] = substitute_variables(step.env[1][key],
                                                                f.runtime_vars)

\* C23: os.environ and the working directory of the engine's process are
\* what they were when the engine was built; each child gets the process
\* environment with the step's env on top (the step's value on equal keys)
\* and nothing else, so no override of an earlier step; it runs in the
\* step's working_directory, or in the project root when that is unset.
C23_ChildGetsCopy ==
    /\ osproc = StartProc
    /\ \A pid \in Pids :
           \A f \in FramesOf(pid) :
               LET step == f.steps[procs[pid].step]
                   popen == procs[pid].popen
                   overrides == IF step.env = None THEN EmptyDict ELSE step.env[1]
               IN /\ DOMAIN popen.env = DOMAIN OsEnviron \cup DOMAIN overrides
                  /\ \A key \in DOMAIN overrides : popen.env[key] = overrides[key]
                  /\ \A key \in DOMAIN OsEnviron \ DOMAIN overrides :
                         popen.env[key] = OsEnviron[key]
                  /\ popen.cwd =
                         IF step.working_directory = None
                            \/ step.working_directory[1] = <<>>
                         THEN ProjectRoot
                         ELSE substitute_variables(step.working_directory[1],
                                                   f.runtime_vars)

\* A step with an override of HOME has run, and the child of the step after
\* it is started with the HOME of the process and without E.
C23_Witness ==
    /\ Len(procs) = 2
    /\ Len(stack) = 1
    /\ stack[1].steps[procs[1].step].env # None
    /\ procs[1].popen.env[KeyHome] = <<"/", "o">>
    /\ procs[1].popen.cwd # ProjectRoot
    /\ procs[2].popen.env = OsEnviron
    /\ procs[2].popen.cwd = ProjectRoot
    /\ StartDir # ProjectRoot

----------------------------------------------------------------------------
(* Properties of preview_workflow_variables, checked under SpecPreview. *)

\* C25: when execute_workflow was called with the name and the runtime
\* variables of the preview, the preview returned the active mapping of
\* that run if the workflow loaded, and the empty mapping if the load
\* failed.
C25_PreviewIsActiveMapping ==
    (out # None /\ calls = 1) =>
        /\ \A k \in 1..Len(stack) :
               (/\ stack[k].workflow_name = out[1].workflow_name
                /\ stack[k].variables = out[1].runtime_vars)
                   => out[1].result = stack[k].runtime_vars
        /\ (/\ ret # None
            /\ ~ret[1].load_ok
            /\ ret[1].workflow_name = out[1].workflow_name)
               => out[1].result = EmptyDict

\* A includes B and sets F, config.yaml sets f, and the caller sets F: the
\* preview and the run of A both have the caller's F and the configuration's
\* GITHUB_FORK_ORG.
C25_Witness ==
    /\ out # None
    /\ Len(stack) = 1
    /\ config # <<>>
    /\ files[NameA].variables # EmptyDict
    /\ out[1].workflow_name = NameA
    /\ stack[1].workflow_name = NameA
    /\ out[1].runtime_vars = (KeyF :> <<"n", "o">>)
    /\ stack[1].variables = out[1].runtime_vars
    /\ out[1].result[KeyF] = <<"n", "o">>
    /\ K_GITHUB_FORK_ORG \in DOMAIN out[1].result

\* The preview of a workflow that does not load (N has an incomplete step).
C25_WitnessNoLoad ==
    /\ out # None
    /\ ret # None
    /\ out[1].workflow_name = NameN
    /\ ret[1].workflow_name = NameN
    /\ out[1].result = EmptyDict

----------------------------------------------------------------------------
(* Properties of the include chain, checked under SpecChain. *)

ChainNames == [k \in 1..Len(lstack) |-> lstack[k].workflow_name]

\* No name is twice on the chain of calls in progress, the chain is no
\* longer than there are documents, and what the finished call hands back
\* is what load_workflow is defined to return.
C26_ChainBounded ==
    /\ \A i, j \in 1..Len(lstack) : ChainNames[i] = ChainNames[j] => i = j
    /\ Len(lstack) <= Cardinality(DOMAIN files)
    /\ \A k \in 1..Len(lstack) :
           lstack[k].loaded_workflows = {ChainNames[i] : i \in 1..k}
    /\ loaded # None =>
           /\ lstack = <<>>
           /\ loaded[1] = load_workflow(files, loadArg[1])

\* C26: along every chain of nested include loads no workflow name occurs
\* twice and the depth stays within the number of names, whatever cycles
\* or self-includes the documents hold, and every load_workflow call comes
\* to its end.
C26_LoadTerminates ==
    /\ []C26_ChainBounded
    /\ (loadArg # None) ~> (loaded # None)

\* A includes B, B includes C, C includes A: the chain A, B, C is in
\* progress and C's include of A has been rejected.
C26_Witness ==
    /\ Len(lstack) = 3
    /\ ChainNames = <<NameA, NameB, NameC>>
    /\ files[NameC].includes = <<NameA>>
    /\ lstack[3].idx = 2
    /\ lstack[3].merged.warnings = <<NameA>>

\* The load of an include of workflow_name as workflow_name's loop makes it.
LoadsAsIncludeOf(workflow_name, include_name) ==
    load_workflow_with_includes(files, include_name, {workflow_name}).ok

\* The documents with the includes list of workflow_name cut down to the
\* includes that load.
WithoutFailedIncludes(workflow_name) ==
    [files EXCEPT ![workflow_name].includes =
        SelectSeq(@, LAMBDA include_name : LoadsAsIncludeOf(workflow_name, include_name))]

\* C27: the steps and the variables of a loaded workflow are those it would
\* have if the includes that failed to load were not in its includes list
\* at all: a failed include leaves nothing behind, neither of its own nor
\* of the sub-includes it had already merged, and takes nothing from the
\* other includes.
C27_FailedIncludeLeavesNothing ==
    (loaded # None /\ loaded[1].ok) =>
        LET r == load_workflow(WithoutFailedIncludes(loadArg[1]), loadArg[1])
        IN /\ r.ok
           /\ loaded[1].steps = r.steps
           /\ loaded[1].variables = r.variables

\* A includes B and C; C includes B, which loads, and then fails on its
\* own malformed step: A has the steps of B once.
C27_Witness ==
    /\ loadArg = Some(NameA)
    /\ loaded # None
    /\ NameC \in DOMAIN files
    /\ files[NameA].includes = <<NameB, NameC>>
    /\ files[NameB].includes = <<>>
    /\ files[NameC].includes = <<NameB>>
    /\ ~files[NameC].steps[1].complete
    /\ loaded[1].ok
    /\ loaded[1].warnings = <<NameC>>
    /\ StepNames(loaded[1].steps) = <<"b1", "a1", "a2">>

----------------------------------------------------------------------------
(* Further properties of the orchestrator, checked under Spec. *)

\* Step j of run f is a workflow-typed step that is not skipped and whose
\* resolved command is the workflow f runs.
CallsItself(f, j) ==
    /\ f.steps[j].type = "workflow"
    /\ ~condition_skips(f.steps[j], f.runtime_vars)
    /\ resolved_command(f.steps[j], f.runtime_vars).command = f.workflow_name

\* No step before step j can end run f: each is skipped or has
\* ignore_errors.
AlwaysReached(f, j) ==
    \A l \in 1..(j - 1) :
        condition_skips(f.steps[l], f.runtime_vars) \/ f.steps[l].ignore_errors

\* The interpreter's recursion limit has been reached in this run.
RecursionLimitHit == \E k \in 1..Len(log) : "raised" \in DOMAIN log[k]

\* A run is never at the step after a step that calls the run's own
\* workflow and that every run of that workflow reaches.
C28_NeverPast ==
    \A f \in RunFrames :
        \A j \in 1..(Len(f.steps) - 1) :
            (CallsItself(f, j) /\ AlwaysReached(f, j)) => f.i <= j

\* A workflow-typed step naming a workflow that is running further up is
\* not refused: a new run of that workflow is entered at its first step,
\* with nothing done yet.
C28_Reenters ==
    (/\ AtNestedCall
     /\ \E k \in 1..Len(stack) : stack[k].workflow_name = NestedName)
        => /\ Len(stack') = Len(stack) + 1
           /\ stack'[Len(stack')].workflow_name = NestedName
           /\ stack'[Len(stack')].i = 1
           /\ stack'[Len(stack')].outcomes = <<>>
           /\ stack'[Len(stack')].pc = "loop"
           /\ ret' = ret

C28_PastOnlyAfterLimit ==
    \A f \in RunFrames :
        \A j \in 1..Len(f.steps) :
            (CallsItself(f, j) /\ AlwaysReached(f, j))
                => /\ Len(f.outcomes) >= j => RecursionLimitHit
                   /\ f.pc = "return" => RecursionLimitHit
                   /\ f.i > j => (f.outcomes[j] = "ok" \/ f.steps[j].ignore_errors)

TargetFails(f, j) ==
    /\ f.steps[j].type = "workflow"
    /\ ~condition_skips(f.steps[j], f.runtime_vars)
    /\ TopLevelLoadFails(resolved_command(f.steps[j], f.runtime_vars).command)

\* C29: a top-level call fails to load only for its own document, whatever
\* the targets of its workflow-typed steps are; a step whose target does
\* not load is taken up when every step before it is over and what they
\* spawned or called is on record, it counts as failed at once, and the run
\* ends there with False without ignore_errors and goes on to the next step
\* with it.
C29_TargetLoadedWhenReached ==
    /\ (ret # None /\ ret[1].id = 1 /\ ~ret[1].load_ok)
           => TopLevelLoadFails(ret[1].workflow_name)
    /\ \A f \in RunFrames :
           \A j \in 1..Len(f.steps) :
               TargetFails(f, j) =>
                   /\ Executed(f, j) <=> j <= Len(f.outcomes)
                   /\ j <= Len(f.outcomes) =>
                          /\ f.outcomes[j] = "failed"
                          /\ \E k \in 1..Len(log) :
                                 /\ log[k].ev = "nested"
                                 /\ log[k].call = f.id
                                 /\ log[k].step = j
                                 /\ \A l \in 1..Len(log) :
                                        (log[l].call = f.id /\ log[l].step < j) => l < k
                          /\ IF ~f.steps[j].ignore_errors
                             THEN /\ Len(f.outcomes) = j
                                  /\ f.pc = "return"
                                  /\ f.result = FALSE
                                  /\ \A l \in (j + 1)..Len(f.steps) : ~Executed(f, l)
                             ELSE j < Len(f.steps) =>
                                      \/ Len(f.outcomes) > j
                                      \/ (f.i = j + 1 /\ f.pc \in {"loop", "run", "call"})

\* A has a kubectl step and then a step calling C, which has no file: A
\* loaded, the kubectl child ran, the second step failed and was ignored.
C29_Witness ==
    /\ ret # None
    /\ ret[1].id = 1
    /\ ret[1].load_ok
    /\ ret[1].workflow_name = NameA
    /\ NameC \notin DOMAIN files
    /\ Len(ret[1].steps) = 2
    /\ ret[1].steps[1].type = "kubectl"
    /\ TargetFails(ret[1], 2)
    /\ ret[1].steps[2].ignore_errors
    /\ ret[1].outcomes = <<"ok", "failed">>
    /\ ret[1].result = TRUE
    /\ log = <<[ev |-> "spawn", call |-> 1, step |-> 1],
               [ev |-> "nested", call |-> 1, step |-> 2]>>

\* The mapping of a run is the merge made before its first step; every
\* step over, whether the workflow's own or inlined from an include, was
\* skipped exactly when its condition is false under that mapping, and a
\* key the running workflow declares has the value of its document unless
\* the caller set it, whatever an include declares.
C30_DecidedAgainstMapping ==
    \A f \in RunFrames :
        /\ f.runtime_vars =
               merge_runtime_vars(config_to_variables(config), f.workflow_variables,
                                  f.variables)
        /\ \A key \in DOMAIN files[f.workflow_name].variables :
               key \notin DOMAIN f.variables =>
                   f.runtime_vars[key] = files[f.workflow_name].variables[key]
        /\ \A j \in 1..Len(f.outcomes) :
               f.outcomes[j] = "skipped" <=> condition_skips(f.steps[j], f.runtime_vars)

\* No step of the program changes the mapping of a run in progress, and a
\* run returns with the mapping it started with.
C30_Unchanged ==
    /\ \A k \in 1..Len(stack) :
           k <= Len(stack') => stack'[k].runtime_vars = stack[k].runtime_vars
    /\ (stack # <<>> /\ Len(stack') = Len(stack) - 1)
           => (ret' # None /\ ret'[1].runtime_vars = Top.runtime_vars)

\* C30: the active mapping of a run is computed once before its first step
\* and is the same at every step of the run: included steps are decided
\* against the including workflow's mapping, and neither a step nor a
\* nested run changes the mapping later steps see.
C30_MappingFixed == []C30_DecidedAgainstMapping /\ [][C30_Unchanged]_vars

\* A, with no F of its own, ran B, which declares F and whose step ran on
\* it; back in A the step conditioned on F was skipped.
C30_Witness ==
    /\ ret # None
    /\ ret[1].id = 1
    /\ ret[1].load_ok
    /\ ret[1].workflow_name = NameA
    /\ KeyF \notin DOMAIN ret[1].runtime_vars
    /\ StepNames(ret[1].steps) = <<"nested_B", "tool_if_F">>
    /\ ret[1].outcomes = <<"ok", "skipped">>
    /\ log = <<[ev |-> "nested", call |-> 1, step |-> 1],
               [ev |-> "spawn", call |-> 2, step |-> 1]>>

\* A includes B and sets F itself: the step inlined from B ran on A's
\* value of F, not on B's.
C30_WitnessInclude ==
    /\ ret # None
    /\ ret[1].id = 1
    /\ ret[1].load_ok
    /\ ret[1].workflow_name = NameA
    /\ files[NameA].includes = <<NameB>>
    /\ files[NameA].variables = (KeyF :> <<"T", "R", "U", "E">>)
    /\ files[NameB].variables[KeyF] = <<"t", "r", "u", "e">>
    /\ ret[1].variables = EmptyDict
    /\ ret[1].runtime_vars[KeyF] = <<"T", "R", "U", "E">>
    /\ StepNames(ret[1].steps) = <<"b1">>
    /\ ret[1].outcomes = <<"ok">>

====
